---------------------------- MODULE Spec2Model ----------------------------
(***************************************************************************)
(* A model of gocxx's networking core: the HTTP layer (ResponseWriterImpl, *)
(* ServeMux, Server / ListenAndServe / ListenAndServeTLS), the TCP and TLS *)
(* listeners and the TCP / UDP / TLS connections' close paths.             *)
(*                                                                         *)
(* Each subsystem has its own specification over the shared variables:     *)
(*   SpecRW      one ResponseWriterImpl bound to one connection            *)
(*   SpecMux     ServeMux::HandleFunc and ServeMux::ServeHTTP              *)
(*   SpecServer  the accept loop and the per-connection workers            *)
(*   SpecListen  TCPListener / TLSListener Accept and Close, two threads   *)
(*   SpecConn    close() and destruction of TCPConn, UDPConn, TLSConn      *)
(*   SpecIO      Read, Write, half-close and deadlines of one connection   *)
(*   SpecClient  Get, Post and DialTLS                                     *)
(*   SpecAddr    ResolveTCPAddr and ResolveUDPAddr                         *)
(*   SpecNet     DialTCP clients, an accepting server, reads and writes    *)
(*   SpecEcho    one DialTCP client and the echo server                    *)
(*   SpecUDP     DialUDP, ListenUDPSimple, ReadFrom / WriteTo              *)
(*   SpecHeaders the header lines of a request and of a response           *)
(*   SpecResults what each fallible operation returns                      *)
(*   SpecTLS     DialTCP / DialUDP / DialTLS / ListenTLS and what they made *)
(*   SpecOnce    the one-time initialisation of the TLS library             *)
(* Text is modelled structurally: a string is a sequence of one-character  *)
(* strings, a payload handed to a connection is a record.                  *)
(***************************************************************************)
EXTENDS Integers, Sequences, FiniteSets, TLC

VARIABLES
    rw,     \* SpecRW: the writer, its connection, and the calls made so far
    mx,     \* SpecMux: ServeMux::handlers_ and the trace of the last dispatch
    srv,    \* SpecServer: accept loop, sockets, connections, workers
    lst,    \* SpecListen: one listener, its socket, the threads using it
    cn,     \* SpecConn: one connection object and its socket handle
    io,     \* SpecIO: one connection, its peer, the calls made on it
    cli,    \* SpecClient: the last Get / Post / DialTLS call and its trace
    ad,     \* SpecAddr: one ResolveTCPAddr / ResolveUDPAddr call and its result
    nt,     \* SpecNet: a TCP listener, the clients dialing it, their traffic
    ud,     \* SpecUDP: a UDP server socket and a connected UDP client
    hd,     \* SpecHeaders: the header lines of a message and the parsed map
    rs,     \* SpecResults: one call of a fallible operation and its result
    tl,     \* SpecTLS: dials, a TLS listener, the objects they made
    on      \* SpecOnce: threads entering DialTLS / ListenTLS at once

vars == <<rw, mx, srv, lst, cn, io, cli, ad, nt, ud, hd, rs, tl, on>>

(***************************************************************************)
(* Bounds of the model.                                                    *)
(***************************************************************************)
MaxCalls == 4       \* calls made on one ResponseWriter

None == "none"

(***************************************************************************)
(* ResponseWriterImpl (http.cpp).                                          *)
(***************************************************************************)
StatusOK == 200
StatusCreated == 201
StatusBadRequest == 400
StatusNotFound == 404
StatusInternalServerError == 500

\* the switch of WriteHeader: the canonical reason phrase of a status code
ReasonPhrase(statusCode) ==
    CASE statusCode = 200 -> "OK"
      [] statusCode = 201 -> "Created"
      [] statusCode = 400 -> "Bad Request"
      [] statusCode = 404 -> "Not Found"
      [] statusCode = 500 -> "Internal Server Error"
      [] OTHER -> "Unknown"

\* "HTTP/1.1 <code> <reason>\r\n" + "<key>: <value>\r\n"* + "\r\n", one payload
StatusBlock(statusCode, headers) ==
    [kind |-> "head", proto |-> "HTTP/1.1", code |-> statusCode,
     reason |-> ReasonPhrase(statusCode), headers |-> headers]

BodyBlock(data) == [kind |-> "body", data |-> data]

EmptyHeaders == [k \in {} |-> None]

\* ResponseWriterImpl's constructor: status_code_(200), headers_written_(false)
NewWriter == [status_code |-> 200, headers_written |-> FALSE,
              headers |-> EmptyHeaders]

\* w.Header()[key] = value
SetHeader(w, key, value) ==
    [w EXCEPT !.headers =
        [k \in DOMAIN w.headers \cup {key} |->
            IF k = key THEN value ELSE w.headers[k]]]

\* WriteHeader without its latch: every call sends a status line
WriteHeaderNoLatch(w, statusCode) ==
    [w   |-> [w EXCEPT !.status_code = statusCode, !.headers_written = TRUE],
     out |-> <<StatusBlock(statusCode, w.headers)>>]

\* ResponseWriterImpl::WriteHeader: the writer after the call and the payloads
\* it hands to conn_->Write
WriteHeader(w, statusCode) ==
    IF w.headers_written
    THEN [w |-> w, out |-> <<>>]
    ELSE [w   |-> [w EXCEPT !.status_code = statusCode,
                            !.headers_written = TRUE],
          out |-> <<StatusBlock(statusCode, w.headers)>>]

\* Write sending the data ahead of the implicit status line and headers
WriteBodyFirst(w, data) ==
    LET h == IF ~w.headers_written
             THEN WriteHeader(w, w.status_code)
             ELSE [w |-> w, out |-> <<>>]
    IN  [w |-> h.w, out |-> <<BodyBlock(data)>> \o h.out]

\* ResponseWriterImpl::Write
Write(w, data) ==
    LET h == IF ~w.headers_written
             THEN WriteHeader(w, w.status_code)
             ELSE [w |-> w, out |-> <<>>]
    IN  [w |-> h.w, out |-> h.out \o <<BodyBlock(data)>>]

(***************************************************************************)
(* Addresses (tcp.h, tcp.cpp, udp.cpp): an address object is its class,    *)
(* its ip and its port; a string is the sequence of its characters.        *)
(***************************************************************************)
Digit(d) == CASE d = 0 -> "0" [] d = 1 -> "1" [] d = 2 -> "2" [] d = 3 -> "3"
              [] d = 4 -> "4" [] d = 5 -> "5" [] d = 6 -> "6" [] d = 7 -> "7"
              [] d = 8 -> "8" [] d = 9 -> "9"

\* std::to_string of a non-negative int
RECURSIVE to_string(_)
to_string(n) == IF n < 10 THEN <<Digit(n)>>
                ELSE to_string(n \div 10) \o <<Digit(n % 10)>>

NullAddr == [class |-> "nullptr", ip |-> <<>>, port |-> 0]
TCPAddr(ip, port) == [class |-> "TCPAddr", ip |-> ip, port |-> port]
UDPAddr(ip, port) == [class |-> "UDPAddr", ip |-> ip, port |-> port]

\* TCPAddr::Network, UDPAddr::Network
Network(addr) ==
    CASE addr.class = "TCPAddr" -> "tcp" [] addr.class = "UDPAddr" -> "udp"

\* TCPAddr::String, UDPAddr::String
AddrString(addr) == addr.ip \o <<":">> \o to_string(addr.port)

\* what accept() stores in client_addr: the peer's address and port
SockAddr(ip, port) == [ip |-> ip, port |-> port]

\* the peer of a connection whose peer the model does not follow
SomePeer == SockAddr(<<"1", ".", "2", ".", "3", ".", "4">>, 80)

(***************************************************************************)
(* Sockets and connection objects.  A net is the objects of a process and  *)
(* the socket handles they name: objs[c].socket_fd is a key of socks.      *)
(* socks[fd].closes counts the SOCKET_CLOSE calls made on the handle.      *)
(***************************************************************************)
\* session_at_close: a SOCKET_CLOSE was made on the handle while a TLSConn on
\* it still had its session
NewSock == [open |-> TRUE, closes |-> 0, shut_rd |-> FALSE, shut_wr |-> FALSE,
            wire |-> <<>>, session_at_close |-> FALSE, peer_addr |-> SomePeer]

\* the TLS contexts and sessions made (SSL_CTX_new, SSL_new) and the ones
\* freed before any object owned them (SSL_CTX_free, SSL_free)
NoLib == [ctx_made |-> 0, ctx_freed |-> 0, ssl_made |-> 0, ssl_freed |-> 0]

EmptyNet == [objs |-> <<>>, socks |-> <<>>, stray |-> <<>>, lib |-> NoLib]

\* SSL_CTX_new / SSL_CTX_free / SSL_new / SSL_free in DialTLS, ListenTLS and
\* TLSListener::Accept
CtxNew(net) == [net EXCEPT !.lib.ctx_made = @ + 1]
CtxFree(net) == [net EXCEPT !.lib.ctx_freed = @ + 1]
SslNew(net) == [net EXCEPT !.lib.ssl_made = @ + 1]
SslFree(net) == [net EXCEPT !.lib.ssl_freed = @ + 1]

\* socket(), accept(): a fresh handle
NewHandle(net) == Len(net.socks) + 1

\* SOCKET_CLOSE(fd)
SocketClose(net, fd) ==
    [net EXCEPT !.socks[fd].open = FALSE, !.socks[fd].closes = @ + 1,
                !.socks[fd].session_at_close =
                    @ \/ \E c \in 1..Len(net.objs) :
                            /\ net.objs[c].socket_fd = fd
                            /\ net.objs[c].alive
                            /\ net.objs[c].ssl # "null"]

\* TCPConn's public constructor (tcp.cpp): closed_(false)
NewTCPConn(fd) ==
    [kind |-> "tcp", socket_fd |-> fd, closed |-> FALSE, alive |-> TRUE,
     ssl |-> "null", ctx |-> "null", ssl_frees |-> 0, ctx_frees |-> 0,
     remote_addr |-> TCPAddr(SomePeer.ip, SomePeer.port)]

\* UDPConn's constructor (udp.cpp): closed_(false)
NewUDPConn(fd) == [NewTCPConn(fd) EXCEPT !.kind = "udp"]

\* TCPConn's protected constructor TCPConn(int), used by TLSConn: declared in
\* tcp.h, its definition is not among the sources
TCPConnFromFD(fd) == NewTCPConn(fd)

\* TLSConn::TLSConn(fd, ssl, ctx): TCPConn(fd), ssl_(ssl), ctx_(ctx)
NewTLSConn(fd, ctx) ==
    [TCPConnFromFD(fd) EXCEPT !.kind = "tls", !.ssl = "live", !.ctx = ctx]

\* close() releasing the handle whether or not the connection is closed
CloseUnguarded(net, c) ==
    [SocketClose(net, net.objs[c].socket_fd) EXCEPT !.objs[c].closed = TRUE]

\* TCPConn::close
TCPConnClose(net, c) ==
    IF ~net.objs[c].closed
    THEN [SocketClose(net, net.objs[c].socket_fd)
            EXCEPT !.objs[c].closed = TRUE]
    ELSE net

\* UDPConn::close
UDPConnClose(net, c) ==
    IF ~net.objs[c].closed
    THEN [SocketClose(net, net.objs[c].socket_fd)
            EXCEPT !.objs[c].closed = TRUE]
    ELSE net

\* if (ssl_) { SSL_shutdown(ssl_); SSL_free(ssl_); ssl_ = nullptr; }
FreeSession(net, c) ==
    IF net.objs[c].ssl # "null"
    THEN [net EXCEPT !.objs[c].ssl = "null", !.objs[c].ssl_frees = @ + 1]
    ELSE net

\* a destructor that frees the context field without testing it
FreeContextUnguarded(net, c) ==
    [net EXCEPT !.objs[c].ctx = "null", !.objs[c].ctx_frees = @ + 1]

\* if (ctx_) { SSL_CTX_free(ctx_); ctx_ = nullptr; }
FreeContext(net, c) ==
    IF net.objs[c].ctx # "null"
    THEN [net EXCEPT !.objs[c].ctx = "null", !.objs[c].ctx_frees = @ + 1]
    ELSE net

\* a TLSConn::close that closes the socket before it ends the session
TLSConnCloseSocketFirst(net, c) == FreeSession(TCPConnClose(net, c), c)

\* TLSConn::close
TLSConnClose(net, c) == TCPConnClose(FreeSession(net, c), c)

\* the virtual close() of a connection object
ConnClose(net, c) ==
    CASE net.objs[c].kind = "tcp" -> TCPConnClose(net, c)
      [] net.objs[c].kind = "udp" -> UDPConnClose(net, c)
      [] net.objs[c].kind = "tls" -> TLSConnClose(net, c)

\* TCPConn::~TCPConn; inside it close() is TCPConn::close
TCPConnDtor(net, c) ==
    LET n == IF ~net.objs[c].closed THEN TCPConnClose(net, c) ELSE net
    IN  [n EXCEPT !.objs[c].alive = FALSE]

\* UDPConn::~UDPConn
UDPConnDtor(net, c) ==
    LET n == IF ~net.objs[c].closed THEN UDPConnClose(net, c) ELSE net
    IN  [n EXCEPT !.objs[c].alive = FALSE]

\* TLSConn::~TLSConn, then the base class destructor
TLSConnDtor(net, c) == TCPConnDtor(FreeContext(FreeSession(net, c), c), c)

\* the virtual destructor of a connection object
ConnDestroy(net, c) ==
    CASE net.objs[c].kind = "tcp" -> TCPConnDtor(net, c)
      [] net.objs[c].kind = "udp" -> UDPConnDtor(net, c)
      [] net.objs[c].kind = "tls" -> TLSConnDtor(net, c)

\* CloseRead / CloseWrite shutting down both directions
ShutdownBothWays(net, c, how) ==
    LET fd == net.objs[c].socket_fd
    IN  IF net.objs[c].closed THEN [net |-> net, err |-> "ErrClosed"]
        ELSE IF ~net.socks[fd].open THEN [net |-> net, err |-> "socket error"]
        ELSE [net |-> [net EXCEPT !.socks[fd].shut_rd = TRUE,
                                  !.socks[fd].shut_wr = TRUE],
              err |-> "nil"]

\* TCPConn::CloseRead / CloseWrite: [net, err]; how is "rd" or "wr".  The
\* shutdown fails on a handle that is no longer open.
TCPConnShutdown(net, c, how) ==
    LET fd == net.objs[c].socket_fd
    IN  IF net.objs[c].closed THEN [net |-> net, err |-> "ErrClosed"]
        ELSE IF ~net.socks[fd].open THEN [net |-> net, err |-> "socket error"]
        ELSE [net |-> IF how = "rd"
                      THEN [net EXCEPT !.socks[fd].shut_rd = TRUE]
                      ELSE [net EXCEPT !.socks[fd].shut_wr = TRUE],
              err |-> "nil"]

(***************************************************************************)
(* Listeners (tcp.cpp, tls.cpp).  A listener is [L, net]: the listener     *)
(* object and the process's sockets and connections.                       *)
(***************************************************************************)
\* ListenTCP after socket / bind / listen succeeded
ListenTCP(net) ==
    LET fd == NewHandle(net)
    IN  [net |-> [net EXCEPT !.socks = Append(@, NewSock)],
         L   |-> [kind |-> "tcp", socket_fd |-> fd, closed |-> FALSE,
                  alive |-> TRUE, ctx |-> "null", ctx_frees |-> 0]]

\* TCPListener::Close as one step: [L, net, err]
TCPListenerClose(L, net) ==
    IF L.closed
    THEN [L |-> L, net |-> net, err |-> "ErrClosed"]
    ELSE [L |-> [L EXCEPT !.closed = TRUE],
          net |-> SocketClose(net, L.socket_fd), err |-> "nil"]

\* TLSListener::Close
TLSListenerClose(L, net) == TCPListenerClose(L, net)

\* TCPListener::~TCPListener
TCPListenerDtor(L, net) ==
    LET r == IF ~L.closed THEN TCPListenerClose(L, net)
             ELSE [L |-> L, net |-> net, err |-> "nil"]
    IN  [L |-> [r.L EXCEPT !.alive = FALSE], net |-> r.net]

\* TCPListener's protected constructor TCPListener(int), used by TLSListener:
\* declared in tcp.h, its definition is not among the sources
TCPListenerFromFD(fd) ==
    [kind |-> "tcp", socket_fd |-> fd, closed |-> FALSE, alive |-> TRUE,
     ctx |-> "null", ctx_frees |-> 0]

\* ListenTLS after the certificate and key were loaded: the TCP listener is
\* created, the TLSListener is built on its handle, and the TCP listener is
\* destroyed when the function returns
ListenTLS(net) ==
    LET t   == ListenTCP(net)
        tls == [TCPListenerFromFD(t.L.socket_fd)
                   EXCEPT !.kind = "tls", !.ctx = "own"]
    IN  [net |-> TCPListenerDtor(t.L, t.net).net, L |-> tls]

\* a connection built by Accept around a handle the process already has
AcceptedOnOldHandle(net) ==
    [net EXCEPT !.socks = Append(@, NewSock),
                !.objs = Append(@, NewTCPConn(Len(net.socks)))]

\* an Accept that drops what accept() stored in client_addr
AcceptedWithoutClientAddr(net, client) ==
    LET fd == NewHandle(net)
    IN  [net EXCEPT !.socks = Append(@, [NewSock EXCEPT !.peer_addr = client]),
                    !.objs = Append(@, NewTCPConn(fd))]

\* the connection TCPListener::Accept builds around the handle accept() gave:
\* remote_addr = TCPAddr(client_ip, client_port), from accept()'s client_addr
AcceptedTCPConnFrom(net, client) ==
    LET fd == NewHandle(net)
    IN  [net EXCEPT !.socks = Append(@, [NewSock EXCEPT !.peer_addr = client]),
                    !.objs = Append(@, [NewTCPConn(fd) EXCEPT !.remote_addr =
                                           TCPAddr(client.ip, client.port)])]

\* the same, for a peer the model does not follow
AcceptedTCPConn(net) == AcceptedTCPConnFrom(net, SomePeer)

\* the remote address of a connection built by TCPConn(int) on handle fd:
\* the address of the handle's peer.  The constructor's definition is not
\* among the sources.
RemoteAddrFromFD(net, fd) ==
    TCPAddr(net.socks[fd].peer_addr.ip, net.socks[fd].peer_addr.port)

\* TLSConn(fd, ssl, nullptr) of TLSListener::Accept
AcceptedTLSConn(net, fd) ==
    [NewTLSConn(fd, "null") EXCEPT !.remote_addr = RemoteAddrFromFD(net, fd)]

\* a TLSListener::Accept that keeps the session of a failed handshake
TLSAcceptKeepsSession(net, raw, ok) ==
    IF ok
    THEN LET n == [SslNew(net) EXCEPT !.objs =
                      Append(@, AcceptedTLSConn(net, net.objs[raw].socket_fd))]
         IN  TCPConnDtor(n, raw)
    ELSE TCPConnDtor(TCPConnClose(SslNew(net), raw), raw)

\* TLSListener::Accept after TCPListener::Accept returned connection raw:
\* SSL_new / SSL_accept succeed (ok) or not.  On success the TLSConn is built
\* on raw's handle; either way raw is destroyed when Accept returns.
TLSAcceptFinish(net, raw, ok) ==
    IF ok
    THEN LET n == [SslNew(net) EXCEPT !.objs =
                      Append(@, AcceptedTLSConn(net, net.objs[raw].socket_fd))]
         IN  TCPConnDtor(n, raw)
    ELSE TCPConnDtor(TCPConnClose(SslFree(SslNew(net)), raw), raw)

\* TLSListener::Accept when SSL_new fails: tcp_conn->close(), the error
TLSAcceptNoSession(net, raw) == TCPConnDtor(TCPConnClose(net, raw), raw)

(***************************************************************************)
(* Writing through a connection object.  A payload sent on an open handle  *)
(* reaches that socket's peer (socks[fd].wire); one sent on a handle that  *)
(* was released does not (net.stray).                                      *)
(***************************************************************************)
SocketSend(net, fd, payload) ==
    IF net.socks[fd].open
    THEN [net EXCEPT !.socks[fd].wire = Append(@, payload)]
    ELSE [net EXCEPT !.stray = Append(@, payload)]

\* TCPConn::Write: if (closed_) return ErrClosed; send(socket_fd_, ...)
TCPConnWrite(net, c, payload) ==
    IF net.objs[c].closed THEN net
    ELSE SocketSend(net, net.objs[c].socket_fd, payload)

\* TLSConn::Write: if (!ssl_) return error; SSL_write(ssl_, ...)
TLSConnWrite(net, c, payload) ==
    IF net.objs[c].ssl = "null" THEN net
    ELSE SocketSend(net, net.objs[c].socket_fd, payload)

\* the virtual Write of the TCPConn a ResponseWriterImpl holds
ConnWrite(net, c, payload) ==
    IF net.objs[c].kind = "tls" THEN TLSConnWrite(net, c, payload)
    ELSE TCPConnWrite(net, c, payload)

RECURSIVE ConnWriteAll(_, _, _)
ConnWriteAll(net, c, payloads) ==
    IF payloads = <<>> THEN net
    ELSE ConnWriteAll(ConnWrite(net, c, Head(payloads)), c, Tail(payloads))

\* the bytes that reached the peer of connection c
Wire(net, c) == net.socks[net.objs[c].socket_fd].wire

(***************************************************************************)
(* SpecRW: a handler calling Header(), WriteHeader and Write in any order. *)
(***************************************************************************)
RWCodes == {200, 201, 404, 418}
RWData == {"x", "y"}
RWKeys == {"content-type"}
RWValues == {"text/plain", "text/html"}

\* the writer is built on an accepted connection, object 1 of rw.net
RWInit == rw = [w |-> NewWriter, net |-> AcceptedTCPConn(EmptyNet),
                log |-> <<>>]

RWHeader(key, value) ==
    /\ Len(rw.log) < MaxCalls
    /\ rw' = [rw EXCEPT !.w = SetHeader(rw.w, key, value),
                        !.log = Append(@, [op |-> "Header", key |-> key,
                                           value |-> value])]
    /\ UNCHANGED <<mx, srv, lst, cn, io, cli, ad, nt, ud, hd, rs, tl, on>>

RWWriteHeader(statusCode) ==
    /\ Len(rw.log) < MaxCalls
    /\ LET r == WriteHeader(rw.w, statusCode)
       IN  rw' = [rw EXCEPT !.w = r.w,
                            !.net = ConnWriteAll(rw.net, 1, r.out),
                            !.log = Append(@, [op |-> "WriteHeader",
                                               code |-> statusCode])]
    /\ UNCHANGED <<mx, srv, lst, cn, io, cli, ad, nt, ud, hd, rs, tl, on>>

RWWrite(data) ==
    /\ Len(rw.log) < MaxCalls
    /\ LET r == Write(rw.w, data)
       IN  rw' = [rw EXCEPT !.w = r.w,
                            !.net = ConnWriteAll(rw.net, 1, r.out),
                            !.log = Append(@, [op |-> "Write",
                                               data |-> data])]
    /\ UNCHANGED <<mx, srv, lst, cn, io, cli, ad, nt, ud, hd, rs, tl, on>>


(***************************************************************************)
(* ServeMux (http.cpp).  A pattern or url is a sequence of characters;     *)
(* handlers_ is a std::map, iterated in the order of its keys.             *)
(***************************************************************************)
Chars == {"/", "a"}

\* the character code std::string compares by
Ord(ch) == CASE ch = "/" -> 47 [] ch = "a" -> 97 [] OTHER -> 0

Min2(a, b) == IF a < b THEN a ELSE b

\* std::string's operator<, the order of the keys of handlers_
StrLess(s, t) ==
    \/ \E i \in 1..Min2(Len(s), Len(t)) :
          /\ \A j \in 1..(i - 1) : s[j] = t[j]
          /\ Ord(s[i]) < Ord(t[i])
    \/ /\ Len(s) < Len(t)
       /\ \A j \in 1..Len(s) : s[j] = t[j]

\* the keys of a std::map in iteration order
RECURSIVE KeysInOrder(_)
KeysInOrder(S) ==
    IF S = {} THEN <<>>
    ELSE LET m == CHOOSE x \in S : \A y \in S \ {x} : StrLess(x, y)
         IN  <<m>> \o KeysInOrder(S \ {m})

\* req.url.find(pattern) == 0
FindAtZero(url, pattern) ==
    /\ Len(pattern) <= Len(url)
    /\ \A i \in 1..Len(pattern) : url[i] = pattern[i]

\* ServeMux::HandleFunc: handlers_[pattern] = handler
HandleFunc(handlers, pattern, handler) ==
    [p \in DOMAIN handlers \cup {pattern} |->
        IF p = pattern THEN handler ELSE handlers[p]]

\* a prefix loop that keeps the first pattern that matches
RECURSIVE PrefixScanFirstMatch(_, _, _, _)
PrefixScanFirstMatch(handlers, url, keys, best) ==
    IF keys = <<>> THEN best
    ELSE LET pattern == Head(keys)
         IN  PrefixScanFirstMatch(handlers, url, Tail(keys),
                 IF FindAtZero(url, pattern) /\ pattern # <<>>
                    /\ best.longest_match = <<>>
                 THEN [longest_match |-> pattern,
                       matched_handler |-> handlers[pattern]]
                 ELSE best)

\* the prefix loop of ServeHTTP, over the keys left to visit
RECURSIVE PrefixScan(_, _, _, _)
PrefixScan(handlers, url, keys, best) ==
    IF keys = <<>> THEN best
    ELSE LET pattern == Head(keys)
         IN  PrefixScan(handlers, url, Tail(keys),
                 IF FindAtZero(url, pattern)
                    /\ Len(pattern) > Len(best.longest_match)
                 THEN [longest_match |-> pattern,
                       matched_handler |-> handlers[pattern]]
                 ELSE best)

NotFoundBody == "404 page not found\n"

\* ServeMux::ServeHTTP: the handlers invoked, the writer afterwards and the
\* payloads the mux itself wrote through it
ServeHTTP(handlers, w, url) ==
    IF url \in DOMAIN handlers
    THEN [invoked |-> <<handlers[url]>>, w |-> w, out |-> <<>>]
    ELSE LET best == PrefixScan(handlers, url, KeysInOrder(DOMAIN handlers),
                                [longest_match |-> <<>>,
                                 matched_handler |-> None])
         IN  IF best.longest_match # <<>>
             THEN [invoked |-> <<best.matched_handler>>, w |-> w,
                   out |-> <<>>]
             ELSE LET h == WriteHeader(w, StatusNotFound)
                      b == Write(h.w, NotFoundBody)
                  IN  [invoked |-> <<>>, w |-> b.w, out |-> h.out \o b.out]

(***************************************************************************)
(* SpecMux: patterns are registered, requests are dispatched.  The trace   *)
(* of a dispatch (mx.last) describes the last ServeHTTP against the        *)
(* current table; handlers are opaque here and only their invocation is    *)
(* recorded.  mx.order is the patterns in the order they were first        *)
(* registered, which the program itself does not keep.                     *)
(***************************************************************************)
MaxStrLen == 3      \* characters in a pattern or url
MaxPatterns == 2    \* patterns registered in one ServeMux
MaxHandlers == 2    \* distinct handler functions

Strs == UNION {[1..n -> Chars] : n \in 0..MaxStrLen}
HandlerIds == 1..MaxHandlers

NoDispatch == [done |-> FALSE, url |-> <<>>, invoked |-> <<>>, wire |-> <<>>]

MxInit == mx = [handlers |-> [p \in {} |-> None], last |-> NoDispatch,
                order |-> <<>>]

MxHandleFunc(pattern, handler) ==
    /\ Cardinality(DOMAIN mx.handlers \cup {pattern}) <= MaxPatterns
    /\ mx' = [handlers |-> HandleFunc(mx.handlers, pattern, handler),
              last |-> NoDispatch,
              order |-> IF pattern \in DOMAIN mx.handlers THEN mx.order
                        ELSE Append(mx.order, pattern)]
    /\ UNCHANGED <<rw, srv, lst, cn, io, cli, ad, nt, ud, hd, rs, tl, on>>

MxServeHTTP(url) ==
    /\ LET r == ServeHTTP(mx.handlers, NewWriter, url)
       IN  mx' = [mx EXCEPT !.last =
                     [done |-> TRUE, url |-> url, invoked |-> r.invoked,
                      wire |-> Wire(ConnWriteAll(AcceptedTCPConn(EmptyNet), 1,
                                                  r.out), 1)]]
    /\ UNCHANGED <<rw, srv, lst, cn, io, cli, ad, nt, ud, hd, rs, tl, on>>

(***************************************************************************)
(* SpecConn: one connection object, created open on its own socket, on     *)
(* which its owner calls close(), CloseRead, CloseWrite any number of      *)
(* times and which is then destroyed.  cn.log is the calls made.           *)
(***************************************************************************)
MaxConnOps == 4     \* calls made on the connection before it is destroyed

CnObjects == {NewTCPConn(1), NewUDPConn(1), NewTLSConn(1, "own"),
              NewTLSConn(1, "null")}

CnInit ==
    \E o \in CnObjects :
        cn = [net |-> [EmptyNet EXCEPT !.objs = <<o>>, !.socks = <<NewSock>>],
              log |-> <<>>, err |-> "nil"]

CnLive == cn.net.objs[1].alive /\ Len(cn.log) < MaxConnOps

CnClose ==
    /\ CnLive
    /\ cn' = [cn EXCEPT !.net = ConnClose(cn.net, 1),
                        !.log = Append(@, "close"), !.err = "nil"]
    /\ UNCHANGED <<rw, mx, srv, lst, io, cli, ad, nt, ud, hd, rs, tl, on>>

CnShutdown(how) ==
    /\ CnLive
    /\ cn.net.objs[1].kind # "udp"
    /\ LET r == TCPConnShutdown(cn.net, 1, how)
       IN  cn' = [cn EXCEPT !.net = r.net, !.log = Append(@, how),
                            !.err = r.err]
    /\ UNCHANGED <<rw, mx, srv, lst, io, cli, ad, nt, ud, hd, rs, tl, on>>

CnDestroy ==
    /\ cn.net.objs[1].alive
    /\ cn' = [cn EXCEPT !.net = ConnDestroy(cn.net, 1),
                        !.log = Append(@, "destroy"), !.err = "nil"]
    /\ UNCHANGED <<rw, mx, srv, lst, io, cli, ad, nt, ud, hd, rs, tl, on>>

(***************************************************************************)
(* SpecListen: a listener made by ListenTCP or ListenTLS, an acceptor      *)
(* thread calling Accept() time after time, a closer thread calling        *)
(* Close() time after time, and peers connecting.  accept() blocks while   *)
(* no connection is pending; Close() from the other thread does            *)
(* SOCKET_CLOSE and sets closed_, nothing more, so whether the blocked     *)
(* accept() wakes is the operating system's choice.  A call on a handle    *)
(* that was released fails, or acts on whatever socket the number names by *)
(* then.                                                                   *)
(***************************************************************************)
MaxAccepts == 3     \* Accept() calls of the acceptor thread
MaxCloses == 2      \* Close() calls of the closer thread
MaxPending == 2     \* peers that connect

LstInit ==
    \E l \in {ListenTCP(EmptyNet), ListenTLS(EmptyNet)} :
        lst = [L |-> l.L, net |-> l.net, pending |-> 0, peers |-> 0,
               acc |-> [pc |-> "idle", calls |-> 0, results |-> <<>>,
                        raw |-> 0, after_close |-> FALSE,
                        closed_while_blocked |-> FALSE],
               cl  |-> [pc |-> "idle", results |-> <<>>]]

\* a peer connects to the listening address
LstPeerConnect ==
    /\ lst.peers < MaxPending
    /\ lst' = [lst EXCEPT !.pending = @ + 1, !.peers = @ + 1]
    /\ UNCHANGED <<rw, mx, srv, cn, io, cli, ad, nt, ud, hd, rs, tl, on>>

\* Accept() is called: if (closed_) return ErrClosed; else accept(socket_fd_)
LstAcceptCall ==
    /\ lst.acc.pc = "idle"
    /\ lst.acc.calls < MaxAccepts
    /\ lst' = IF lst.L.closed
              THEN [lst EXCEPT !.acc.calls = @ + 1,
                               !.acc.results = Append(@, "ErrClosed")]
              ELSE [lst EXCEPT !.acc.calls = @ + 1,
                               !.acc.pc = "in_accept",
                               !.acc.after_close = (lst.cl.results # <<>>),
                               !.acc.closed_while_blocked = FALSE]
    /\ UNCHANGED <<rw, mx, srv, cn, io, cli, ad, nt, ud, hd, rs, tl, on>>

\* accept() returns a connection
LstAcceptReturn ==
    /\ lst.acc.pc = "in_accept"
    /\ lst.pending > 0
    /\ LET n == AcceptedTCPConn(lst.net)
       IN  lst' = IF lst.L.kind = "tcp"
                  THEN [lst EXCEPT !.net = n, !.pending = @ - 1,
                                   !.acc.pc = "idle",
                                   !.acc.results = Append(@, "conn")]
                  ELSE [lst EXCEPT !.net = n, !.pending = @ - 1,
                                   !.acc.pc = "handshake",
                                   !.acc.raw = Len(n.objs)]
    /\ UNCHANGED <<rw, mx, srv, cn, io, cli, ad, nt, ud, hd, rs, tl, on>>

\* accept() returns INVALID_SOCKET: a transient failure, a bad handle, or an
\* operating system that wakes the call when the handle is closed
LstAcceptFail ==
    /\ lst.acc.pc = "in_accept"
    /\ lst' = [lst EXCEPT !.acc.pc = "idle",
                          !.acc.results = Append(@, "socket error")]
    /\ UNCHANGED <<rw, mx, srv, cn, io, cli, ad, nt, ud, hd, rs, tl, on>>

\* TLSListener::Accept: the server handshake on the accepted connection
LstHandshake(ok) ==
    /\ lst.acc.pc = "handshake"
    /\ lst' = [lst EXCEPT !.net = TLSAcceptFinish(lst.net, lst.acc.raw, ok),
                          !.acc.pc = "idle", !.acc.raw = 0,
                          !.acc.results =
                              Append(@, IF ok THEN "conn"
                                        ELSE "handshake error")]
    /\ UNCHANGED <<rw, mx, srv, cn, io, cli, ad, nt, ud, hd, rs, tl, on>>

\* Close() is called: if (closed_) return ErrClosed; SOCKET_CLOSE(socket_fd_)
LstCloseCall ==
    /\ lst.cl.pc = "idle"
    /\ Len(lst.cl.results) < MaxCloses
    /\ lst' = IF lst.L.closed
              THEN [lst EXCEPT !.cl.results = Append(@, "ErrClosed")]
              ELSE [lst EXCEPT !.net = SocketClose(lst.net, lst.L.socket_fd),
                               !.cl.pc = "closing",
                               !.acc.closed_while_blocked =
                                   (lst.acc.pc = "in_accept")]
    /\ UNCHANGED <<rw, mx, srv, cn, io, cli, ad, nt, ud, hd, rs, tl, on>>

\* closed_ = true; return {}
LstCloseReturn ==
    /\ lst.cl.pc = "closing"
    /\ lst' = [lst EXCEPT !.L.closed = TRUE, !.cl.pc = "idle",
                          !.cl.results = Append(@, "nil")]
    /\ UNCHANGED <<rw, mx, srv, cn, io, cli, ad, nt, ud, hd, rs, tl, on>>

(***************************************************************************)
(* The bytes of a request (http.cpp).  What a connection delivers is a     *)
(* sequence of tokens: a word (a run of characters that are neither        *)
(* whitespace nor a line end, with its length in bytes), a space or a      *)
(* "\r\n".  A word's text is a sequence of characters, as a url is.        *)
(***************************************************************************)
BUFFER_SIZE == 4096
MaxRequestBytes == 1024 * 1024

Word(text, bytes) == [k |-> "word", text |-> text, bytes |-> bytes]
SP == [k |-> "sp", text |-> <<>>, bytes |-> 1]
CRLF == [k |-> "crlf", text |-> <<>>, bytes |-> 2]

GET == <<"G", "E", "T">>
HTTP11 == <<"H", "T", "T", "P", "/", "1", ".", "1">>

\* a full buffer of one repeated character: part of a word
FillText == <<"x">>
Fill == Word(FillText, BUFFER_SIZE)

\* "GET <url> HTTP/1.1\r\n"
RequestLine(url) ==
    <<Word(GET, Len(GET)), SP, Word(url, Len(url)), SP,
      Word(HTTP11, Len(HTTP11)), CRLF>>

\* raw_request.append(buffer, n): bytes of a word that continue the word the
\* buffer ends with are that same word
AppendBytes(raw, chunk) ==
    IF /\ raw # <<>> /\ chunk # <<>>
       /\ raw[Len(raw)].k = "word" /\ raw[Len(raw)].text = FillText
       /\ chunk[1].k = "word" /\ chunk[1].text = FillText
    THEN [raw EXCEPT ![Len(raw)].bytes = @ + chunk[1].bytes] \o Tail(chunk)
    ELSE raw \o chunk

\* raw_request.size()
RECURSIVE Size(_)
Size(raw) == IF raw = <<>> THEN 0 ELSE Head(raw).bytes + Size(Tail(raw))

\* raw_request.find("\r\n\r\n") != npos
HasTerminator(raw) ==
    \E i \in 1..(Len(raw) - 1) : raw[i].k = "crlf" /\ raw[i + 1].k = "crlf"

\* std::getline(stream, line) on the whole buffer, then the "\r" popped: the
\* tokens before the first line end
FirstLine(raw) ==
    IF \E i \in 1..Len(raw) : raw[i].k = "crlf"
    THEN LET e == CHOOSE i \in 1..Len(raw) :
                      /\ raw[i].k = "crlf"
                      /\ \A j \in 1..(i - 1) : raw[j].k # "crlf"
         IN  SubSeq(raw, 1, e - 1)
    ELSE raw

IsWord(t) == t.k = "word"

\* request_line >> req.method >> req.url >> req.proto: the whitespace-
\* separated words of the line, an empty string where there is none
RequestLineFields(line) ==
    LET words == SelectSeq(line, IsWord)
        field(i) == IF i <= Len(words) THEN words[i].text ELSE <<>>
    IN  [method |-> field(1), url |-> field(2), proto |-> field(3)]

EmptyRequest == [method |-> <<>>, url |-> <<>>, proto |-> <<>>,
                 remote_addr |-> None]

\* Server::parseRequest: [failed, req].  getline fails on an empty buffer.
\* The header lines and the body decide no branch and are left out.
parseRequest(raw) ==
    IF raw = <<>> THEN [failed |-> TRUE, req |-> EmptyRequest]
    ELSE LET f == RequestLineFields(FirstLine(raw))
             req == [EmptyRequest EXCEPT !.method = f.method, !.url = f.url,
                                         !.proto = f.proto]
         IN  IF f.method = <<>> \/ f.url = <<>>
             THEN [failed |-> TRUE, req |-> req]
             ELSE [failed |-> FALSE, req |-> req]

\* the parser written out in ListenAndServeTLS's worker: the same fields,
\* and no failure
InlineParse(raw) ==
    IF raw = <<>> THEN EmptyRequest
    ELSE LET f == RequestLineFields(FirstLine(raw))
         IN  [EmptyRequest EXCEPT !.method = f.method, !.url = f.url,
                                  !.proto = f.proto]

(***************************************************************************)
(* The worker of one accepted connection: Server::handleConnection and the *)
(* lambda of ListenAndServeTLS.  A worker is a record: conn is its         *)
(* connection object, pc its position, raw its raw_request; the other      *)
(* fields record what it did.                                              *)
(***************************************************************************)
NewWorker(c, peer, failed_before) ==
    [conn |-> c, pc |-> "read", raw |-> <<>>, peer |-> peer,
     req |-> EmptyRequest, reads |-> 0, hit_limit |-> FALSE,
     parse_failed |-> FALSE, mux_calls |-> 0, invoked |-> <<>>,
     writes |-> 0, close_calls |-> 0, failed_before |-> failed_before]

\* what the peer sends next: a chunk of its script, then buffers of filler
\* for ever ("flood") or nothing, having closed its side ("eof")
PeerNext(peer) ==
    IF peer.chunks # <<>>
    THEN [got |-> Head(peer.chunks),
          peer |-> [peer EXCEPT !.chunks = Tail(@)]]
    ELSE IF peer.then = "flood" THEN [got |-> <<Fill>>, peer |-> peer]
    ELSE [got |-> <<>>, peer |-> peer]

ReadFailed(peer) == [got |-> <<>>, peer |-> peer]

\* recv / SSL_read on handle fd: what the peer sent; on a released handle
\* the call fails, or reads the socket that bears the number by then
SocketRecv(net, fd, peer) ==
    IF net.socks[fd].open THEN {PeerNext(peer)}
    ELSE {ReadFailed(peer), PeerNext(peer)}

\* TCPConn::Read: the outcomes [got, peer]; got = <<>> is a failure or 0
TCPConnRead(net, c, peer) ==
    IF net.objs[c].closed THEN {ReadFailed(peer)}
    ELSE SocketRecv(net, net.objs[c].socket_fd, peer)

\* TLSConn::Read
TLSConnRead(net, c, peer) ==
    IF net.objs[c].ssl = "null" THEN {ReadFailed(peer)}
    ELSE SocketRecv(net, net.objs[c].socket_fd, peer)

\* the virtual Read of the worker's connection
ConnRead(net, c, peer) ==
    IF net.objs[c].kind = "tls" THEN TLSConnRead(net, c, peer)
    ELSE TCPConnRead(net, c, peer)

\* one turn of the read loop, given what Read returned
ReadLoopTurn(wk, r) ==
    LET raw == AppendBytes(wk.raw, r.got)
        w1  == [wk EXCEPT !.reads = @ + 1, !.peer = r.peer]
    IN  IF r.got = <<>> THEN [w1 EXCEPT !.pc = "parse"]
        ELSE IF HasTerminator(raw) THEN [w1 EXCEPT !.raw = raw, !.pc = "parse"]
        ELSE IF Size(raw) > MaxRequestBytes
        THEN [w1 EXCEPT !.raw = raw, !.pc = "parse", !.hit_limit = TRUE]
        ELSE [w1 EXCEPT !.raw = raw]

\* conn->RemoteAddr()->String()
RemoteAddrString(net, c) == AddrString(net.objs[c].remote_addr)

\* handleConnection from the end of the read loop to the writer: [net, wk]
HandleConnectionParse(net, wk) ==
    LET r == parseRequest(wk.raw)
    IN  IF r.failed
        THEN [net |-> ConnClose(net, wk.conn),
              wk  |-> [wk EXCEPT !.pc = "done", !.parse_failed = TRUE,
                                 !.close_calls = @ + 1]]
        ELSE [net |-> net,
              wk  |-> [wk EXCEPT !.pc = "serve",
                         !.req = [r.req EXCEPT !.remote_addr =
                                     RemoteAddrString(net, wk.conn)]]]

\* the same stretch of ListenAndServeTLS's worker; parse_failed records
\* whether the buffer is one parseRequest rejects
TLSWorkerParse(net, wk) ==
    [net |-> net,
     wk  |-> [wk EXCEPT !.pc = "serve",
                !.parse_failed = parseRequest(wk.raw).failed,
                !.req = [InlineParse(wk.raw) EXCEPT !.remote_addr =
                            RemoteAddrString(net, wk.conn)]]]

\* what a registered handler does with its writer: [w, out]
RunHandler(h, w) ==
    IF h = 1 THEN Write(w, "x")
    ELSE LET a == WriteHeader(w, StatusCreated)
             b == Write(a.w, "y")
         IN  [w |-> b.w, out |-> a.out \o b.out]

\* handler->ServeHTTP(writer, request) with the handler it selects run on
\* the writer: [invoked, out]
Dispatch(handlers, w, url) ==
    LET m == ServeHTTP(handlers, w, url)
    IN  IF m.invoked = <<>> THEN [invoked |-> <<>>, out |-> m.out]
        ELSE [invoked |-> m.invoked,
              out |-> m.out \o RunHandler(m.invoked[1], m.w).out]

\* the end of a worker that closes its connection only after a dispatch
ServeRequestLeak(net, wk, handler) ==
    IF handler.present
    THEN LET d == Dispatch(handler.handlers, NewWriter, wk.req.url)
         IN  [net |-> ConnClose(ConnWriteAll(net, wk.conn, d.out), wk.conn),
              wk  |-> [wk EXCEPT !.pc = "done", !.mux_calls = @ + 1,
                                 !.invoked = d.invoked,
                                 !.writes = @ + Len(d.out),
                                 !.close_calls = @ + 1]]
    ELSE [net |-> net, wk |-> [wk EXCEPT !.pc = "done"]]

\* the end of both workers: ResponseWriterImpl writer(conn);
\* if (handler) handler->ServeHTTP(writer, request); conn->close();
ServeRequest(net, wk, handler) ==
    LET d == IF handler.present
             THEN Dispatch(handler.handlers, NewWriter, wk.req.url)
             ELSE [invoked |-> <<>>, out |-> <<>>]
    IN  [net |-> ConnClose(ConnWriteAll(net, wk.conn, d.out), wk.conn),
         wk  |-> [wk EXCEPT !.pc = "done",
                    !.mux_calls = IF handler.present THEN @ + 1 ELSE @,
                    !.invoked = d.invoked,
                    !.writes = @ + Len(d.out),
                    !.close_calls = @ + 1]]

\* a function that returns when Accept fails
LoopReturnOnFailure(loop) ==
    [loop EXCEPT !.pc = "returned", !.failed = @ + 1, !.raw = 0]

\* the accept loop after a failed Accept: continue
LoopContinue(loop) ==
    [loop EXCEPT !.pc = "top", !.failed = @ + 1, !.raw = 0]

\* the accept loop after a successful Accept: the connection is handed to a
\* new detached thread
LoopSpawn(s, c, peer) ==
    [s EXCEPT !.loop.pc = "top", !.loop.raw = 0,
              !.w = Append(@, NewWorker(c, peer, s.loop.failed))]

(***************************************************************************)
(* SpecServer and SpecWorker: ListenAndServe (srv.tls false) or            *)
(* ListenAndServeTLS (srv.tls true) running its accept loop, the workers   *)
(* it spawns running concurrently, and peers that connect and send.  The   *)
(* mux is built before the server starts.  SpecServer serves MaxConns      *)
(* peers, each sending a short script; SpecWorker serves one peer, which   *)
(* may also send without end.                                              *)
(***************************************************************************)
MaxConns == 2          \* peers that connect to the server
MaxAcceptFails == 1    \* accept() calls that fail

SrvUrls == {<<"/">>, <<"/", "a">>}

NoHandlers == [p \in {} |-> None]

\* the handler argument: a null pointer, an empty mux, a mux with routes
SrvTables ==
    {[present |-> FALSE, handlers |-> NoHandlers],
     [present |-> TRUE, handlers |-> NoHandlers],
     [present |-> TRUE, handlers |-> (<<"/", "a">> :> 2)]}

\* a peer: what it sends, what it does then, the address it connects from
Script(chunks, then) == [chunks |-> chunks, then |-> then, addr |-> SomePeer]

\* the address the k-th peer connects from
ClientAddr(k) ==
    SockAddr(<<"1", "0", ".", "0", ".", "0", ".">> \o to_string(k), 40000 + k)

\* peers that send a little and close their side
ShortScripts ==
    {Script(<<RequestLine(u) \o <<CRLF>>>>, "eof") : u \in SrvUrls}
    \cup {Script(<<RequestLine(<<"/", "a">>), <<CRLF>>>>, "eof"),
          Script(<<RequestLine(<<"/", "a">>)>>, "eof"),
          Script(<<>>, "eof"),
          Script(<<<<Word(GET, Len(GET)), CRLF, CRLF>>>>, "eof"),
          Script(<<<<CRLF, CRLF>>>>, "eof")}

\* peers that never send the header terminator and never stop sending
FloodScripts ==
    {Script(<<RequestLine(<<"/", "a">>)>>, "flood"), Script(<<>>, "flood")}

SrvStart(conns, scripts) ==
    \E tls \in BOOLEAN, h \in SrvTables :
        LET l == IF tls THEN ListenTLS(EmptyNet) ELSE ListenTCP(EmptyNet)
        IN  srv = [tls |-> tls, handler |-> h, L |-> l.L, net |-> l.net,
                   budget |-> [conns |-> conns, scripts |-> scripts],
                   pending |-> <<>>, peers |-> 0,
                   loop |-> [pc |-> "top", failed |-> 0, accepted |-> 0,
                             raw |-> 0, peer |-> Script(<<>>, "eof")],
                   w |-> <<>>]

\* the peers of SpecServer: a full request, nothing, a line without a url
ServerScripts ==
    {Script(<<RequestLine(<<"/", "a">>) \o <<CRLF>>>>, "eof"),
     Script(<<>>, "eof"),
     Script(<<<<Word(GET, Len(GET)), CRLF, CRLF>>>>, "eof")}

SrvInit == SrvStart(MaxConns, ServerScripts)
WorkerInit == SrvStart(1, ShortScripts \cup FloodScripts)

\* a peer connects to the listening address
SrvPeerConnect(script) ==
    /\ srv.peers < srv.budget.conns
    /\ script \in srv.budget.scripts
    /\ srv' = [srv EXCEPT !.peers = @ + 1,
                          !.pending = Append(@, [script EXCEPT !.addr =
                                                   ClientAddr(srv.peers + 1)])]
    /\ UNCHANGED <<rw, mx, lst, cn, io, cli, ad, nt, ud, hd, rs, tl, on>>

\* listener->Accept(): if (closed_) return ErrClosed; else accept()
SrvAcceptCall ==
    /\ srv.loop.pc = "top"
    /\ srv' = IF srv.L.closed
              THEN [srv EXCEPT !.loop = LoopContinue(@)]
              ELSE [srv EXCEPT !.loop.pc = "in_accept"]
    /\ UNCHANGED <<rw, mx, lst, cn, io, cli, ad, nt, ud, hd, rs, tl, on>>

\* accept() returns a connection; ListenAndServe spawns its worker.
\* loop.accepted counts the Accept calls that returned a connection.
SrvAcceptReturn ==
    /\ srv.loop.pc = "in_accept"
    /\ srv.pending # <<>>
    /\ LET n == AcceptedTCPConnFrom(srv.net, Head(srv.pending).addr)
           s == [srv EXCEPT !.net = n, !.pending = Tail(@)]
       IN  srv' = IF srv.L.kind = "tcp"
                  THEN LoopSpawn([s EXCEPT !.loop.accepted = @ + 1],
                                 Len(n.objs), Head(srv.pending))
                  ELSE [s EXCEPT !.loop.pc = "handshake",
                                 !.loop.raw = Len(n.objs),
                                 !.loop.peer = Head(srv.pending)]
    /\ UNCHANGED <<rw, mx, lst, cn, io, cli, ad, nt, ud, hd, rs, tl, on>>

\* accept() fails
SrvAcceptFail ==
    /\ srv.loop.pc = "in_accept"
    /\ srv.loop.failed < MaxAcceptFails
    /\ srv' = [srv EXCEPT !.loop = LoopContinue(@)]
    /\ UNCHANGED <<rw, mx, lst, cn, io, cli, ad, nt, ud, hd, rs, tl, on>>

\* TLSListener::Accept: the handshake; ListenAndServeTLS spawns the worker
SrvHandshake(ok) ==
    /\ srv.loop.pc = "handshake"
    /\ LET n == TLSAcceptFinish(srv.net, srv.loop.raw, ok)
           s == [srv EXCEPT !.net = n]
       IN  srv' = IF ok
                  THEN LoopSpawn([s EXCEPT !.loop.accepted = @ + 1],
                                 Len(n.objs), srv.loop.peer)
                  ELSE [s EXCEPT !.loop = LoopContinue(@)]
    /\ UNCHANGED <<rw, mx, lst, cn, io, cli, ad, nt, ud, hd, rs, tl, on>>

\* worker i: conn->Read(buffer, BUFFER_SIZE) and the tests that follow it
SrvRead(i) ==
    /\ srv.w[i].pc = "read"
    /\ \E r \in ConnRead(srv.net, srv.w[i].conn, srv.w[i].peer) :
          srv' = [srv EXCEPT !.w[i] = ReadLoopTurn(@, r)]
    /\ UNCHANGED <<rw, mx, lst, cn, io, cli, ad, nt, ud, hd, rs, tl, on>>

\* worker i parses what it read
SrvParse(i) ==
    /\ srv.w[i].pc = "parse"
    /\ LET r == IF srv.tls THEN TLSWorkerParse(srv.net, srv.w[i])
                ELSE HandleConnectionParse(srv.net, srv.w[i])
       IN  srv' = [srv EXCEPT !.net = r.net, !.w[i] = r.wk]
    /\ UNCHANGED <<rw, mx, lst, cn, io, cli, ad, nt, ud, hd, rs, tl, on>>

\* worker i dispatches its request and closes the connection
SrvServe(i) ==
    /\ srv.w[i].pc = "serve"
    /\ LET r == ServeRequest(srv.net, srv.w[i], srv.handler)
       IN  srv' = [srv EXCEPT !.net = r.net, !.w[i] = r.wk]
    /\ UNCHANGED <<rw, mx, lst, cn, io, cli, ad, nt, ud, hd, rs, tl, on>>

\* worker i ends: the last reference to its connection goes
SrvWorkerEnd(i) ==
    /\ srv.w[i].pc = "done"
    /\ srv' = [srv EXCEPT !.net = ConnDestroy(srv.net, srv.w[i].conn),
                          !.w[i].pc = "ended"]
    /\ UNCHANGED <<rw, mx, lst, cn, io, cli, ad, nt, ud, hd, rs, tl, on>>

(***************************************************************************)
(* Read and Write of a connection (os.cpp, net.cpp, tls.cpp).  The          *)
(* sources compile for POSIX or for Windows (#ifdef _WIN32); platform      *)
(* names the build.  A system call's outcome is [ret, code]: the value     *)
(* returned and, when it is negative, errno / WSAGetLastError() or, for    *)
(* SSL_read and SSL_write, SSL_get_error().  A result is [value, err].     *)
(***************************************************************************)
Platforms == {"posix", "win32"}

\* socketErrorToError of os.cpp (TCPConn, TCPListener)
socketErrorToError(platform, err_code) ==
    IF platform = "win32"
    THEN CASE err_code = "WSAETIMEDOUT" -> "ErrTimeout"
           [] err_code \in {"WSAECONNRESET", "WSAENOTCONN"} -> "ErrClosed"
           [] err_code = "WSAEADDRINUSE" -> "address already in use"
           [] err_code = "WSAEADDRNOTAVAIL" ->
                  "cannot assign requested address"
           [] OTHER -> "socket error"
    ELSE CASE err_code = "ETIMEDOUT" -> "ErrTimeout"
           [] err_code \in {"ECONNRESET", "ENOTCONN", "EPIPE"} -> "ErrClosed"
           [] err_code = "EADDRINUSE" -> "address already in use"
           [] err_code = "EADDRNOTAVAIL" -> "cannot assign requested address"
           [] OTHER -> "socket error"

\* socketErrorToError of net.cpp (UDPConn)
udpSocketErrorToError(platform, err_code) ==
    IF platform = "win32"
    THEN CASE err_code = "WSAETIMEDOUT" -> "ErrTimeout"
           [] err_code \in {"WSAECONNRESET", "WSAENOTCONN"} -> "ErrClosed"
           [] OTHER -> "socket error"
    ELSE CASE err_code = "ETIMEDOUT" -> "ErrTimeout"
           [] err_code \in {"ECONNRESET", "ENOTCONN"} -> "ErrClosed"
           [] OTHER -> "socket error"

Result(value, err) == [value |-> value, err |-> err]
Outcome(ret, code) == [ret |-> ret, code |-> code]

\* TCPConn::Read returning what recv returned, as UDPConn::Read does
ReadResultZeroOK(platform, r) ==
    IF r.ret < 0 THEN Result(0, socketErrorToError(platform, r.code))
    ELSE Result(r.ret, "nil")

\* TCPConn::Read after the closed_ test, recv having returned r
TCPReadResult(platform, r) ==
    IF r.ret < 0 THEN Result(0, socketErrorToError(platform, r.code))
    ELSE IF r.ret = 0 THEN Result(0, "ErrClosed")
    ELSE Result(r.ret, "nil")

\* TCPConn::Write reporting success as a status, not as a count
WriteResultStatus(platform, r) ==
    IF r.ret < 0 THEN Result(0, socketErrorToError(platform, r.code))
    ELSE Result(0, "nil")

\* TCPConn::Write after the closed_ test, send having returned r
TCPWriteResult(platform, r) ==
    IF r.ret < 0 THEN Result(0, socketErrorToError(platform, r.code))
    ELSE Result(r.ret, "nil")

\* UDPConn::Read after the closed_ test
UDPReadResult(platform, r) ==
    IF r.ret < 0 THEN Result(0, udpSocketErrorToError(platform, r.code))
    ELSE Result(r.ret, "nil")

\* UDPConn::Write after the closed_ test
UDPWriteResult(platform, r) ==
    IF r.ret < 0 THEN Result(0, udpSocketErrorToError(platform, r.code))
    ELSE Result(r.ret, "nil")

WouldBlock == {"SSL_ERROR_WANT_READ", "SSL_ERROR_WANT_WRITE"}

\* TLSConn::Read that reports a would-block as an error
TLSReadResultStrict(r) ==
    IF r.ret > 0 THEN Result(r.ret, "nil")
    ELSE IF r.ret = 0 THEN Result(0, "nil")
    ELSE Result(0, "SSL_read failed")

\* TLSConn::Read after the ssl_ test, SSL_read having returned r
TLSReadResult(r) ==
    IF r.ret > 0 THEN Result(r.ret, "nil")
    ELSE IF r.ret = 0 THEN Result(0, "nil")
    ELSE IF r.code \in WouldBlock THEN Result(0, "nil")
    ELSE Result(0, "SSL_read failed")

\* TLSConn::Write after the ssl_ test, SSL_write having returned r
TLSWriteResult(r) ==
    IF r.ret > 0 THEN Result(r.ret, "nil")
    ELSE IF r.code \in WouldBlock THEN Result(0, "SSL_write would block")
    ELSE Result(0, "SSL_write failed")

(***************************************************************************)
(* What the operating system and the TLS library answer.  sock is the      *)
(* local handle, peer the other end: peer.inflight bytes it sent that were *)
(* not read yet, peer.state "open", "closed" (it sent FIN) or "reset".     *)
(* An empty set of outcomes is a call that blocks.                         *)
(***************************************************************************)
BadHandle(platform) == IF platform = "win32" THEN "WSAENOTSOCK" ELSE "EBADF"
ConnReset(platform) ==
    IF platform = "win32" THEN "WSAECONNRESET" ELSE "ECONNRESET"
\* send on a direction that was shut down
SendAfterShutdown(platform) ==
    IF platform = "win32" THEN "WSAESHUTDOWN" ELSE "EPIPE"

\* recv(fd, buffer, size, 0), size > 0
RecvOutcomes(platform, sock, peer, size) ==
    IF ~sock.open THEN {Outcome(-1, BadHandle(platform))}
    ELSE IF sock.shut_rd
    THEN IF platform = "win32" THEN {Outcome(-1, "WSAESHUTDOWN")}
         ELSE {Outcome(0, "none")}
    ELSE IF peer.state = "reset" THEN {Outcome(-1, ConnReset(platform))}
    ELSE IF peer.inflight > 0
    THEN {Outcome(n, "none") : n \in 1..Min2(size, peer.inflight)}
    ELSE IF peer.state = "closed" THEN {Outcome(0, "none")}
    ELSE {}

\* send(fd, data, n, MSG_NOSIGNAL), n > 0
SendOutcomes(platform, sock, peer, n) ==
    IF ~sock.open THEN {Outcome(-1, BadHandle(platform))}
    ELSE IF sock.shut_wr THEN {Outcome(-1, SendAfterShutdown(platform))}
    ELSE IF peer.state = "reset"
    THEN {Outcome(-1, ConnReset(platform))}
         \cup (IF platform = "win32" THEN {} ELSE {Outcome(-1, "EPIPE")})
    ELSE {Outcome(n, "none")}

\* SSL_read(ssl, buffer, size) over the handle: bytes of a record, the
\* peer's close_notify (0), a wait for more of a record or for a handshake
\* message, or a failure of the transport
SSLReadOutcomes(platform, sock, peer, size) ==
    LET os == RecvOutcomes(platform, sock, peer, size)
    IN  {Outcome(r.ret, "SSL_ERROR_NONE") : r \in {x \in os : x.ret > 0}}
        \cup {Outcome(-1, "SSL_ERROR_WANT_READ") : r \in {x \in os : x.ret > 0}}
        \cup {Outcome(0, "SSL_ERROR_ZERO_RETURN") : r \in {x \in os : x.ret = 0}}
        \cup {Outcome(-1, "SSL_ERROR_SYSCALL") : r \in {x \in os : x.ret <= 0}}

\* SSL_write(ssl, data, n) over the handle
SSLWriteOutcomes(platform, sock, peer, n) ==
    LET os == SendOutcomes(platform, sock, peer, n)
    IN  {Outcome(r.ret, "SSL_ERROR_NONE") : r \in {x \in os : x.ret > 0}}
        \cup {Outcome(-1, "SSL_ERROR_WANT_WRITE") : r \in {x \in os : x.ret > 0}}
        \cup {Outcome(-1, "SSL_ERROR_SYSCALL") : r \in {x \in os : x.ret < 0}}

\* the bytes a read outcome took from what the peer had in flight; SSL_read
\* on a blocking socket asks for more after it consumed some
Taken(out) == IF out.ret > 0 THEN out.ret
              ELSE IF out.code = "SSL_ERROR_WANT_READ" THEN 1
              ELSE 0

\* the test each Read and Write makes before its system call: closed_ for
\* TCPConn and UDPConn, !ssl_ for TLSConn
Refuses(o) == IF o.kind = "tls" THEN o.ssl = "null" ELSE o.closed
Refusal(o) == IF o.kind = "tls" THEN Result(0, "TLS connection closed")
              ELSE Result(0, "ErrClosed")

\* Read / Write of connection object o, its system call having returned out
ReadResult(platform, o, out) ==
    CASE o.kind = "tls" -> TLSReadResult(out)
      [] o.kind = "udp" -> UDPReadResult(platform, out)
      [] OTHER          -> TCPReadResult(platform, out)

WriteResult(platform, o, out) ==
    CASE o.kind = "tls" -> TLSWriteResult(out)
      [] o.kind = "udp" -> UDPWriteResult(platform, out)
      [] OTHER          -> TCPWriteResult(platform, out)

ReadOutcomes(platform, o, sock, peer, size) ==
    IF o.kind = "tls" THEN SSLReadOutcomes(platform, sock, peer, size)
    ELSE RecvOutcomes(platform, sock, peer, size)

WriteOutcomes(platform, o, sock, peer, n) ==
    IF o.kind = "tls" THEN SSLWriteOutcomes(platform, sock, peer, n)
    ELSE SendOutcomes(platform, sock, peer, n)

(***************************************************************************)
(* SpecIO: one connected connection object (TCPConn, UDPConn or TLSConn)   *)
(* on its own socket, one thread calling Read, Write, CloseRead,           *)
(* CloseWrite, close() and the deadline setters on it, and the peer        *)
(* sending bytes, closing or resetting.  Read is a call and a return: in   *)
(* between the thread is inside recv / SSL_read, which returns once it has *)
(* something to return.  io.rdl / io.wdl are the read and write deadline:  *)
(* "max" as constructed, "set" once a setter stored a time point, "passed" *)
(* once the clock is beyond it.  io.log holds one entry per finished call  *)
(* other than a deadline setter: its result, the system call's outcome     *)
(* (NoCall when none was made), and what held when it was made.              *)
(***************************************************************************)
MaxIoOps == 3        \* calls made on the connection, deadline setters apart
MaxPeerBytes == 2    \* bytes the peer sends
ReadSizes == {1, 2}  \* sizes of the buffer handed to Read
WriteSizes == {1}    \* numbers of bytes handed to Write

\* the entry of a call that returned before its system call
NoCall == Outcome(0, "not called")

\* no call finished yet
NoEntry == [op |-> "none", value |-> 0, err |-> "nil", out |-> NoCall,
            closed |-> FALSE, cw_ok |-> FALSE, avail |-> 0, peer |-> "open",
            shut_rd |-> FALSE]

IoKinds == {NewTCPConn(1), NewUDPConn(1), NewTLSConn(1, "own")}

IoInit ==
    \E o \in IoKinds, platform \in Platforms :
        io = [platform |-> platform,
              net |-> [EmptyNet EXCEPT !.objs = <<o>>, !.socks = <<NewSock>>],
              peer |-> [state |-> "open", inflight |-> 0, sent |-> 0],
              pc |-> "idle", size |-> 0,
              rdl |-> "max", wdl |-> "max",
              cw_ok |-> FALSE, ops |-> 0,
              prev |-> NoEntry, last |-> NoEntry]

IoObj == io.net.objs[1]
IoSock == io.net.socks[1]
IoReady == io.pc = "idle" /\ io.ops < MaxIoOps

IoEntry(op, res, out) ==
    [op |-> op, value |-> res.value, err |-> res.err, out |-> out,
     closed |-> IoObj.closed, cw_ok |-> io.cw_ok,
     avail |-> io.peer.inflight, peer |-> io.peer.state,
     shut_rd |-> IoSock.shut_rd]

IoOthers == <<rw, mx, srv, lst, cn, cli, ad, nt, ud, hd, rs, tl, on>>

Called(e) == e.out # NoCall

\* the peer sends a byte
IoPeerSend ==
    /\ io.peer.state = "open"
    /\ io.peer.sent < MaxPeerBytes
    /\ io' = [io EXCEPT !.peer.inflight = @ + 1, !.peer.sent = @ + 1]
    /\ UNCHANGED IoOthers

\* the peer closes its side
IoPeerClose ==
    /\ io.peer.state = "open"
    /\ IoObj.kind # "udp"
    /\ io' = [io EXCEPT !.peer.state = "closed"]
    /\ UNCHANGED IoOthers

\* the peer resets the connection; what it had in flight is dropped
IoPeerReset ==
    /\ io.peer.state # "reset"
    /\ IoObj.kind # "udp"
    /\ io' = [io EXCEPT !.peer.state = "reset", !.peer.inflight = 0]
    /\ UNCHANGED IoOthers

\* Read(buffer, size) up to its system call
IoReadCall(size) ==
    /\ IoReady
    /\ IF Refuses(IoObj)
       THEN io' = [io EXCEPT
                     !.ops = @ + 1, !.prev = io.last,
                     !.last = IoEntry("Read", Refusal(IoObj), NoCall)]
       ELSE io' = [io EXCEPT !.pc = "in_recv", !.size = size]
    /\ UNCHANGED IoOthers

\* recv / SSL_read returns and Read returns its result
IoReadReturn ==
    /\ io.pc = "in_recv"
    /\ \E out \in ReadOutcomes(io.platform, IoObj, IoSock, io.peer, io.size) :
          io' = [io EXCEPT
                   !.pc = "idle", !.size = 0,
                   !.peer.inflight = @ - Taken(out),
                   !.ops = @ + 1, !.prev = io.last,
                   !.last = IoEntry("Read",
                                    ReadResult(io.platform, IoObj, out), out)]
    /\ UNCHANGED IoOthers

\* Write(data, n)
IoWrite(n) ==
    /\ IoReady
    /\ IF Refuses(IoObj)
       THEN io' = [io EXCEPT
                     !.ops = @ + 1, !.prev = io.last,
                     !.last = IoEntry("Write", Refusal(IoObj), NoCall)]
       ELSE \E out \in WriteOutcomes(io.platform, IoObj, IoSock, io.peer, n) :
              io' = [io EXCEPT
                       !.net = IF out.ret > 0
                               THEN SocketSend(io.net, IoObj.socket_fd, out.ret)
                               ELSE io.net,
                       !.ops = @ + 1, !.prev = io.last,
                       !.last = IoEntry("Write",
                                        WriteResult(io.platform, IoObj, out),
                                        out)]
    /\ UNCHANGED IoOthers

\* CloseRead() / CloseWrite()
IoShutdown(how) ==
    /\ IoReady
    /\ IoObj.kind # "udp"
    /\ LET r == TCPConnShutdown(io.net, 1, how)
       IN  io' = [io EXCEPT
                    !.net = r.net,
                    !.cw_ok = @ \/ (how = "wr" /\ r.err = "nil"),
                    !.ops = @ + 1, !.prev = io.last,
                    !.last = IoEntry(IF how = "rd" THEN "CloseRead"
                                     ELSE "CloseWrite",
                                     Result(0, r.err), NoCall)]
    /\ UNCHANGED IoOthers

\* close()
IoClose ==
    /\ IoReady
    /\ io' = [io EXCEPT !.net = ConnClose(io.net, 1),
                        !.ops = @ + 1, !.prev = io.last,
                        !.last = IoEntry("close", Result(0, "nil"), NoCall)]
    /\ UNCHANGED IoOthers

\* SetReadDeadline(t), SetWriteDeadline(t): the time point is stored
SetReadDeadline(i, t) == [i EXCEPT !.rdl = t]
SetWriteDeadline(i, t) == [i EXCEPT !.wdl = t]
\* SetDeadline(t): read_deadline_ = write_deadline_ = t
SetDeadline(i, t) == [i EXCEPT !.rdl = t, !.wdl = t]

\* a deadline setter is called with a time point that is still to come
\* ("set") or that is gone already ("passed")
IoSetDeadline(which, t) ==
    /\ io.pc = "idle"
    /\ LET i == CASE which = "read"  -> SetReadDeadline(io, t)
                  [] which = "write" -> SetWriteDeadline(io, t)
                  [] OTHER           -> SetDeadline(io, t)
       IN  io' = i
    /\ UNCHANGED IoOthers

\* the clock passes a stored deadline
IoDeadlinePasses ==
    /\ "set" \in {io.rdl, io.wdl}
    /\ io' = [io EXCEPT !.rdl = IF @ = "set" THEN "passed" ELSE @,
                        !.wdl = IF @ = "set" THEN "passed" ELSE @]
    /\ UNCHANGED IoOthers

(***************************************************************************)
(* The client side: DialTCP (tcp.cpp), DialTLS (tls.cpp), Get and Post     *)
(* (http.cpp).  A url or address is a sequence of characters.  env is what *)
(* the world answers to one call: whether the address resolves and the     *)
(* connect succeeds, whether each file of the config loads, which trust    *)
(* anchor the peer's certificate chains to, whether the certificate bears  *)
(* the host name, and what the peer replies.                               *)
(***************************************************************************)
HTTPS == <<"h", "t", "t", "p", "s", ":", "/", "/">>
HTTP == <<"h", "t", "t", "p", ":", "/", "/">>

\* s.find(ch): the first index of ch in s, 0 for npos
Find(s, ch) ==
    IF \E i \in 1..Len(s) : s[i] = ch
    THEN CHOOSE i \in 1..Len(s) : s[i] = ch /\ \A j \in 1..(i - 1) : s[j] # ch
    ELSE 0

\* s.substr(n), counting from 0
Substr(s, n) == SubSeq(s, n + 1, Len(s))

\* a url parsing that takes a url without a known scheme as a plain address
ParseURLLenient(url) ==
    [parsed |-> TRUE, is_https |-> FindAtZero(url, HTTPS),
     address |-> url \o <<":">> \o to_string(80), path |-> <<"/">>]

\* the url parsing of Get and of Post: parsed is FALSE on the error return
ParseURL(url) ==
    LET split(rest, https, port) ==
            LET slash_pos == Find(rest, "/")
                address   == IF slash_pos # 0 THEN SubSeq(rest, 1, slash_pos - 1)
                             ELSE rest
                path      == IF slash_pos # 0 THEN Substr(rest, slash_pos - 1)
                             ELSE <<"/">>
            IN  [parsed |-> TRUE, is_https |-> https,
                 address |-> IF Find(address, ":") = 0
                             THEN address \o <<":">> \o to_string(port)
                             ELSE address,
                 path |-> path]
    IN  IF FindAtZero(url, HTTPS) THEN split(Substr(url, 8), TRUE, 443)
        ELSE IF FindAtZero(url, HTTP) THEN split(Substr(url, 7), FALSE, 80)
        ELSE [parsed |-> FALSE, is_https |-> FALSE, address |-> <<>>,
              path |-> <<"/">>]

\* const TLSConfig* config: a null pointer, or a TLSConfig
NullConfig == [present |-> FALSE, insecure_skip_verify |-> FALSE,
               ca_file |-> "", cert_file |-> "", key_file |-> ""]
\* TLSConfig(): insecure_skip_verify(false), the paths empty
NewTLSConfig == [NullConfig EXCEPT !.present = TRUE]

\* a dial that made no TLS context
NoContext == [verify |-> "unset", anchors |-> "none", identity |-> "none",
              sni |-> <<>>, host |-> <<>>]

DialResult(net, conn, err, ctx, calls) ==
    [net |-> net, conn |-> conn, err |-> err, ctx |-> ctx, calls |-> calls]

\* DialTCP(network, address): conn is the new object of net, 0 on failure
DialTCP(net, address, env) ==
    LET fd    == NewHandle(net)
        made  == [net EXCEPT !.socks = Append(@, NewSock)]
        calls == <<[fn |-> "DialTCP", address |-> address,
                    config |-> NullConfig]>>
    IN  IF Find(address, ":") = 0
        THEN DialResult(net, 0, "ErrInvalidAddr", NoContext, calls)
        ELSE IF ~env.resolves
        THEN DialResult(net, 0, "cannot resolve address", NoContext, calls)
        ELSE IF ~env.connects
        THEN DialResult(SocketClose(made, fd), 0, "socket error", NoContext,
                        calls)
        ELSE DialResult([made EXCEPT !.objs = Append(@, NewTCPConn(fd))],
                        Len(net.objs) + 1, "nil", NoContext, calls)

\* a context configuration that trusts the system store whatever ca_file is
ConfigureSystemStore(config, env) ==
    [verify |-> IF config.present /\ config.insecure_skip_verify
                THEN "none" ELSE "peer",
     anchors |-> IF config.present /\ config.insecure_skip_verify
                 THEN "none" ELSE "system",
     identity |-> "none", err |-> "nil"]

\* the "Configure SSL context" part of DialTLS: the context, and err
ConfigureContext(config, env) ==
    LET trust ==
            IF ~config.present
            THEN [verify |-> "peer", anchors |-> "system", err |-> "nil"]
            ELSE IF config.insecure_skip_verify
            THEN [verify |-> "none", anchors |-> "none", err |-> "nil"]
            ELSE IF config.ca_file # ""
            THEN IF env.ca_loads
                 THEN [verify |-> "peer", anchors |-> "ca_file", err |-> "nil"]
                 ELSE [verify |-> "peer", anchors |-> "none",
                       err |-> "Failed to load CA file"]
            ELSE [verify |-> "peer", anchors |-> "system", err |-> "nil"]
        own ==
            IF config.present /\ config.cert_file # "" /\ config.key_file # ""
            THEN IF ~env.cert_loads
                 THEN [identity |-> "none", err |-> "Failed to load certificate"]
                 ELSE IF ~env.key_loads
                 THEN [identity |-> "none", err |-> "Failed to load private key"]
                 ELSE [identity |-> "loaded", err |-> "nil"]
            ELSE [identity |-> "none", err |-> "nil"]
    IN  [verify |-> trust.verify, anchors |-> trust.anchors,
         identity |-> IF trust.err = "nil" THEN own.identity ELSE "none",
         err |-> IF trust.err # "nil" THEN trust.err ELSE own.err]

\* the host name DialTLS takes from the address: up to the first ':'
HostOf(address) ==
    IF Find(address, ":") # 0 THEN SubSeq(address, 1, Find(address, ":") - 1)
    ELSE address

\* SSL_connect: the handshake succeeds when the server answers it and, with
\* SSL_VERIFY_PEER, its certificate chains to an anchor of the context and
\* bears the host name that SSL_set1_host asked for
Handshake(ctx, env) ==
    /\ env.handshakes
    /\ ctx.verify = "peer" =>
          /\ env.peer_anchor = ctx.anchors
          /\ ctx.host # <<>> => env.host_match

\* a ReleaseFD that leaves the handle with the TCPConn
ReleaseFDKeepsHandle(net, c) == net

\* TCPConn::ReleaseFD, called by DialTLS: its definition is not among the
\* sources; the object gives up its handle and no longer closes it
ReleaseFD(net, c) == [net EXCEPT !.objs[c].closed = TRUE]

\* a failed handshake that frees the session and the context and leaves the
\* socket to the caller
HandshakeFailedLeaks(net, c) ==
    [CtxFree(SslFree(net)) EXCEPT !.objs[c].closed = TRUE,
                                  !.objs[c].alive = FALSE]

\* DialTLS when SSL_connect fails: SSL_free(ssl); SSL_CTX_free(ctx);
\* tcp_conn->close(); and tcp_conn is destroyed on return
HandshakeFailed(net, c) ==
    TCPConnDtor(TCPConnClose(CtxFree(SslFree(net)), c), c)

\* DialTLS(network, address, config), the intermediate TCPConn destroyed
\* with the last reference to it when the function returns
DialTLS(net, address, config, env) ==
    LET tcp   == DialTCP(net, address, env)
        c     == tcp.conn
        calls == <<[fn |-> "DialTLS", address |-> address,
                    config |-> config]>> \o tcp.calls
        cfg   == ConfigureContext(config, env)
        ctx   == [verify |-> cfg.verify, anchors |-> cfg.anchors,
                  identity |-> cfg.identity,
                  sni |-> HostOf(address),
                  host |-> IF ~config.present \/ ~config.insecure_skip_verify
                           THEN HostOf(address) ELSE <<>>]
        fail(n, err) == DialResult(TCPConnDtor(TCPConnClose(n, c), c),
                                   0, err, NoContext, calls)
        withCtx == CtxNew(tcp.net)
        withSsl == SslNew(withCtx)
    IN  IF tcp.err # "nil"
        THEN DialResult(tcp.net, 0, tcp.err, NoContext, calls)
        ELSE IF ~env.ctx_ok THEN fail(tcp.net, "SSL_CTX_new failed")
        ELSE IF cfg.err # "nil" THEN fail(CtxFree(withCtx), cfg.err)
        ELSE IF ~env.ssl_new_ok THEN fail(CtxFree(withCtx), "SSL_new failed")
        ELSE IF ~Handshake(ctx, env)
        THEN DialResult(HandshakeFailed(withSsl, c), 0, "SSL_connect failed",
                        NoContext, calls)
        ELSE LET fd   == tcp.net.objs[c].socket_fd
                 rel  == ReleaseFD(withSsl, c)
                 made == [rel EXCEPT !.objs = Append(@, NewTLSConn(fd, "own"))]
             IN  DialResult(TCPConnDtor(made, c), Len(made.objs), "nil", ctx,
                            calls)

\* what Get and Post return without having dialed
NoDial(net, err) == DialResult(net, 0, err, NoContext, <<>>)

\* the request Get / Post hands to conn->Write, one payload
RequestBlock(method, path, address, content_type, body) ==
    [kind |-> "request", method |-> method, path |-> path, host |-> address,
     content_type |-> content_type, content_length |-> Len(body),
     connection |-> "close", body |-> body]

\* Get and Post dialing https with verification switched off
ExchangeSkipVerify(net, p, request, env) ==
    LET config == [NewTLSConfig EXCEPT !.insecure_skip_verify = TRUE]
        d      == IF p.is_https THEN DialTLS(net, p.address, config, env)
                  ELSE DialTCP(net, p.address, env)
    IN  [res |-> d, reply |-> env.reply]

\* what Read's system call returns in turn number turn of the client's read
\* loop: the next chunk the peer sent, 0 once it has closed; over TLS,
\* would-block in the turn env.stall names (0: in none)
ReplyOutcome(o, chunks, turn, env) ==
    IF o.kind = "tls" /\ env.stall = turn
    THEN Outcome(-1, "SSL_ERROR_WANT_READ")
    ELSE IF chunks = <<>> THEN Outcome(0, "none")
    ELSE Outcome(Head(chunks).bytes, "none")

\* while (true) { Read; if (Failed() || value == 0) break; append }: the
\* raw_response gathered.  No receive fails here, so the build plays no part.
RECURSIVE ClientReadLoop(_, _, _, _, _)
ClientReadLoop(o, chunks, turn, raw, env) ==
    LET out == ReplyOutcome(o, chunks, turn, env)
        r   == ReadResult("posix", o, out)
    IN  IF r.err # "nil" \/ r.value = 0 THEN raw
        ELSE ClientReadLoop(o, Tail(chunks), turn + 1,
                            Append(raw, Head(chunks)), env)

\* Get and Post from "Connect" on: dial, write the request, read until Read
\* fails or returns 0, close the connection, look for the status line.  The
\* result is the dial's, with the error of the step that failed, and the
\* raw_response read.
Exchange(net, p, request, env) ==
    LET config == [NewTLSConfig EXCEPT !.insecure_skip_verify = FALSE]
        d    == IF p.is_https THEN DialTLS(net, p.address, config, env)
                ELSE DialTCP(net, p.address, env)
        sent == ConnWrite(d.net, d.conn, request)
        raw  == ClientReadLoop(d.net.objs[d.conn], env.reply, 1, <<>>, env)
        done == ConnDestroy(ConnClose(sent, d.conn), d.conn)
    IN  IF d.err # "nil" THEN [res |-> d, reply |-> <<>>]
        ELSE [res |-> [d EXCEPT !.net = done,
                                !.err = IF raw = <<>>
                                        THEN "invalid response: no status line"
                                        ELSE "nil"],
              reply |-> raw]

\* Get(url)
Get(net, url, env) ==
    LET p == ParseURL(url)
    IN  IF ~p.parsed
        THEN [res |-> NoDial(net, "invalid URL"), reply |-> <<>>]
        ELSE Exchange(net, p,
                      RequestBlock("GET", p.path, p.address, "", <<>>), env)

\* Post(url, content_type, body)
Post(net, url, content_type, body, env) ==
    LET p == ParseURL(url)
    IN  IF ~p.parsed
        THEN [res |-> NoDial(net, "invalid URL"), reply |-> <<>>]
        ELSE Exchange(net, p,
                      RequestBlock("POST", p.path, p.address, content_type,
                                   body), env)

(***************************************************************************)
(* SpecClient: one call of Get, Post or DialTLS in a process that holds no *)
(* socket yet, in a world env.  cli.call is the call made, cli.res what it *)
(* returned and did: the sockets and objects it left (net), the dial calls *)
(* it made (calls), the TLS context it configured (ctx).                   *)
(***************************************************************************)
Schemes == {HTTPS, HTTP, <<>>, <<"f", "t", "p", ":", "/", "/">>,
            <<"h", "t", "t", "p", ":", "/">>,
            <<"h", "t", "t", "p", "s", ":", "/">>,
            <<"H", "T", "T", "P", ":", "/", "/">>,
            <<" ">> \o HTTPS}
Hosts == {<<"a">>, <<"a", ":", "8">>}
Paths == {<<>>, <<"/">>, <<"/", "x">>}
Urls == {scheme \o host \o path :
            scheme \in Schemes, host \in Hosts, path \in Paths}
Addresses == {<<"a", ":", "8">>, <<"a">>}
Files(name) == {"", name}
Configs == {NullConfig} \cup
           [present : {TRUE}, insecure_skip_verify : BOOLEAN,
            ca_file : Files("ca.pem"), cert_file : Files("cert.pem"),
            key_file : Files("key.pem")]
\* what the peer sends before it closes, in the chunks Read returns
Chunk(text, bytes) == [text |-> text, bytes |-> bytes]
Replies == {<<>>, <<Chunk("HTTP/1.1 200 OK\r\n\r\n", 19)>>,
            <<Chunk("HTTP/1.1 200 OK\r\n\r\n", 19), Chunk("body", 4)>>}
Envs == [resolves : BOOLEAN, connects : BOOLEAN, ca_loads : BOOLEAN,
         cert_loads : BOOLEAN, key_loads : BOOLEAN, handshakes : BOOLEAN,
         peer_anchor : {"system", "ca_file", "unknown"},
         host_match : BOOLEAN, reply : Replies, stall : 0..2,
         ctx_ok : {TRUE}, ssl_new_ok : {TRUE}]

NoCallYet == [fn |-> "none", url |-> <<>>, address |-> <<>>,
              config |-> NullConfig]

CliInit ==
    \E env \in Envs :
        cli = [env |-> env, call |-> NoCallYet,
               res |-> NoDial(EmptyNet, "nil"), reply |-> <<>>]

CliOthers == <<rw, mx, srv, lst, cn, io, ad, nt, ud, hd, rs, tl, on>>

CliGet(url) ==
    /\ cli.call = NoCallYet
    /\ LET r == Get(EmptyNet, url, cli.env)
       IN  cli' = [cli EXCEPT !.call = [NoCallYet EXCEPT !.fn = "Get",
                                                         !.url = url],
                              !.res = r.res, !.reply = r.reply]
    /\ UNCHANGED CliOthers

CliPost(url) ==
    /\ cli.call = NoCallYet
    /\ LET r == Post(EmptyNet, url, "text/plain", <<"b">>, cli.env)
       IN  cli' = [cli EXCEPT !.call = [NoCallYet EXCEPT !.fn = "Post",
                                                         !.url = url],
                              !.res = r.res, !.reply = r.reply]
    /\ UNCHANGED CliOthers

CliDialTLS(address, config) ==
    /\ cli.call = NoCallYet
    /\ cli' = [cli EXCEPT !.call = [NoCallYet EXCEPT !.fn = "DialTLS",
                                                     !.address = address,
                                                     !.config = config],
                          !.res = DialTLS(EmptyNet, address, config, cli.env)]
    /\ UNCHANGED CliOthers

(***************************************************************************)
(* Address resolution (tcp.cpp, udp.cpp).  An address is text, a sequence  *)
(* of characters; an ip is text too.                                       *)
(***************************************************************************)
\* s.rfind(ch): the position of the last ch counted from 1, 0 for npos
RFind(s, ch) ==
    IF \E i \in 1..Len(s) : s[i] = ch
    THEN CHOOSE i \in 1..Len(s) :
             s[i] = ch /\ \A j \in (i + 1)..Len(s) : s[j] # ch
    ELSE 0

\* the value of a decimal digit, -1 for any other character
DigitVal(ch) ==
    CASE ch = "0" -> 0 [] ch = "1" -> 1 [] ch = "2" -> 2 [] ch = "3" -> 3
      [] ch = "4" -> 4 [] ch = "5" -> 5 [] ch = "6" -> 6 [] ch = "7" -> 7
      [] ch = "8" -> 8 [] ch = "9" -> 9 [] OTHER -> -1

\* the leading whitespace that strtol skips
RECURSIVE SkipSpace(_)
SkipSpace(s) ==
    IF s # <<>> /\ Head(s) = " " THEN SkipSpace(Tail(s)) ELSE s

Thrown == [thrown |-> TRUE, value |-> 0]

\* the digits strtol consumes: it stops at the first character that is not a
\* digit; std::stoi throws invalid_argument when there was no digit and
\* out_of_range when the value does not fit an int
RECURSIVE StoiDigits(_, _, _)
StoiDigits(s, acc, seen) ==
    IF s = <<>> \/ DigitVal(Head(s)) = -1
    THEN IF seen THEN [thrown |-> FALSE, value |-> acc] ELSE Thrown
    ELSE IF acc > (2147483647 - DigitVal(Head(s))) \div 10 THEN Thrown
    ELSE StoiDigits(Tail(s), acc * 10 + DigitVal(Head(s)), TRUE)

\* std::stoi(str): whitespace, an optional sign, then the digits
stoi(str) ==
    LET t   == SkipSpace(str)
        neg == t # <<>> /\ Head(t) = "-"
        u   == IF t # <<>> /\ Head(t) \in {"+", "-"} THEN Tail(t) ELSE t
        r   == StoiDigits(u, 0, FALSE)
    IN  IF r.thrown THEN Thrown
        ELSE [thrown |-> FALSE, value |-> IF neg THEN 0 - r.value ELSE r.value]

AnyAddr == <<"0", ".", "0", ".", "0", ".", "0">>

\* a parseAddress that hands an empty host to the resolver as it is
parseAddressKeepEmptyHost(address) ==
    LET colon_pos == RFind(address, ":")
        host      == SubSeq(address, 1, colon_pos - 1)
        p         == stoi(SubSeq(address, colon_pos + 1, Len(address)))
    IN  IF colon_pos = 0 THEN [ok |-> FALSE, host |-> <<>>, port |-> 0]
        ELSE IF p.thrown \/ p.value < 0 \/ p.value > 65535
        THEN [ok |-> FALSE, host |-> host, port |-> 0]
        ELSE [ok |-> TRUE, host |-> host, port |-> p.value]

\* parseAddress (the same function in tcp.cpp and in udp.cpp): ok is its
\* return value, host and port its two out parameters
parseAddress(address) ==
    LET colon_pos == RFind(address, ":")
        host      == SubSeq(address, 1, colon_pos - 1)
        port_str  == SubSeq(address, colon_pos + 1, Len(address))
        host2     == IF host = <<>> THEN AnyAddr ELSE host
        p         == stoi(port_str)
    IN  IF colon_pos = 0 THEN [ok |-> FALSE, host |-> <<>>, port |-> 0]
        ELSE IF p.thrown \/ p.value < 0 \/ p.value > 65535
        THEN [ok |-> FALSE, host |-> host2, port |-> 0]
        ELSE [ok |-> TRUE, host |-> host2, port |-> p.value]

\* the hosts that are IPv4 literals
Literals == {AnyAddr, <<"1", ".", "2", ".", "3", ".", "4">>}

\* getaddrinfo(host, AF_INET) followed by inet_ntop: a literal is its own
\* ip, the empty name is no host, any other name is looked up (env.dns)
getaddrinfo(host, env) ==
    IF host \in Literals THEN [ok |-> TRUE, ip |-> host]
    ELSE IF host = <<>> THEN [ok |-> FALSE, ip |-> <<>>]
    ELSE env.dns

ResolveTCPAddr(network, address, env) ==
    LET parsed == parseAddress(address)
        found  == getaddrinfo(parsed.host, env)
    IN  IF network \notin {"tcp", "tcp4", "tcp6"}
        THEN Result(NullAddr, "unsupported network type")
        ELSE IF ~parsed.ok THEN Result(NullAddr, "ErrInvalidAddr")
        ELSE IF ~found.ok THEN Result(NullAddr, "cannot resolve address")
        ELSE Result(TCPAddr(found.ip, parsed.port), "nil")

ResolveUDPAddr(network, address, env) ==
    LET parsed == parseAddress(address)
        found  == getaddrinfo(parsed.host, env)
    IN  IF network \notin {"udp", "udp4", "udp6"}
        THEN Result(NullAddr, "unsupported network type")
        ELSE IF ~parsed.ok THEN Result(NullAddr, "ErrInvalidAddr")
        ELSE IF ~found.ok THEN Result(NullAddr, "cannot resolve address")
        ELSE Result(UDPAddr(found.ip, parsed.port), "nil")

(***************************************************************************)
(* SpecAddr: one call of ResolveTCPAddr or of ResolveUDPAddr on a network  *)
(* name and an address drawn from the texts below.                         *)
(***************************************************************************)
MaxPortLen == 2

Networks == {"tcp", "tcp4", "tcp6", "udp", "udp4", "udp6", "unix", ""}
PortChars == {"8", "0", " ", "+", "-", "x"}
PortTexts ==
    UNION {[1..k -> PortChars] : k \in 0..MaxPortLen}
    \cup {<<"6", "5", "5", "3", "5">>, <<"6", "5", "5", "3", "6">>,
          <<"9", "9", "9", "9", "9", "9", "9", "9", "9", "9">>}
AddrHosts == {<<>>, <<"h">>, <<"1", ".", "2", ".", "3", ".", "4">>,
              <<"h", ":", "8">>}
AddrTexts == {host \o <<":">> \o port : host \in AddrHosts, port \in PortTexts}
             \cup {<<>>, <<"h">>, <<"8">>}
AddrEnvs == [dns : {[ok |-> FALSE, ip |-> <<>>],
                    [ok |-> TRUE, ip |-> <<"1", ".", "2", ".", "3", ".", "4">>]}]

AdInit ==
    \E network \in Networks, address \in AddrTexts, env \in AddrEnvs :
        ad = [network |-> network, address |-> address, env |-> env,
              fn |-> "none", res |-> Result(NullAddr, "not called")]

AdOthers == <<rw, mx, srv, lst, cn, io, cli, nt, ud, hd, rs, tl, on>>

AdResolveTCP ==
    /\ ad.fn = "none"
    /\ ad' = [ad EXCEPT !.fn = "ResolveTCPAddr",
                        !.res = ResolveTCPAddr(ad.network, ad.address, ad.env)]
    /\ UNCHANGED AdOthers

AdResolveUDP ==
    /\ ad.fn = "none"
    /\ ad' = [ad EXCEPT !.fn = "ResolveUDPAddr",
                        !.res = ResolveUDPAddr(ad.network, ad.address, ad.env)]
    /\ UNCHANGED AdOthers

(***************************************************************************)
(* The header lines of a message (http.cpp).  What follows the first line  *)
(* of a request or of a response is a sequence of lines, as std::getline   *)
(* cuts them at "\n"; a line is text and may end in "\r".                  *)
(***************************************************************************)
\* std::isspace
IsSpace(ch) == ch \in {" ", "\t", "\r", "\n"}

\* trim: the text without its leading and trailing whitespace
RECURSIVE trim(_)
trim(str) ==
    IF str = <<>> THEN <<>>
    ELSE IF IsSpace(Head(str)) THEN trim(Tail(str))
    ELSE IF IsSpace(str[Len(str)]) THEN trim(SubSeq(str, 1, Len(str) - 1))
    ELSE str

\* ::tolower on the letters of the model
LowerChar(ch) == CASE ch = "K" -> "k" [] ch = "V" -> "v" [] OTHER -> ch

\* toLower: std::transform with ::tolower
toLower(str) == [i \in 1..Len(str) |-> LowerChar(str[i])]

\* header[key] = value on a std::map
MapStore(header, key, value) ==
    [k \in DOMAIN header \cup {key} |->
        IF k = key THEN value ELSE header[k]]

\* if (!line.empty() && line.back() == '\r') line.pop_back()
PopCR(line) ==
    IF line # <<>> /\ line[Len(line)] = "\r"
    THEN SubSeq(line, 1, Len(line) - 1) ELSE line

\* the header loop of parseRequest and of Get / Post: it ends at the first
\* empty line, skips a line without colon, and stores the others
RECURSIVE ParseHeaders(_, _)
ParseHeaders(lines, header) ==
    IF lines = <<>> THEN header
    ELSE LET line      == PopCR(Head(lines))
             colon_pos == Find(line, ":")
             key       == toLower(trim(SubSeq(line, 1, colon_pos - 1)))
             value     == trim(SubSeq(line, colon_pos + 1, Len(line)))
         IN  IF line = <<>> THEN header
             ELSE IF colon_pos # 0
             THEN ParseHeaders(Tail(lines), MapStore(header, key, value))
             ELSE ParseHeaders(Tail(lines), header)

\* a lookup with the key as the caller wrote it
HeaderExact(header, key) ==
    IF key \in DOMAIN header THEN header[key] ELSE <<>>

\* Request::Header, Response::Header
Header(header, key) ==
    IF toLower(key) \in DOMAIN header THEN header[toLower(key)] ELSE <<>>

(***************************************************************************)
(* SpecHeaders: the header lines of one message are parsed, by the server  *)
(* as a request or by the client as a response, and Header is then asked   *)
(* for keys.                                                               *)
(***************************************************************************)
MaxHeaderLines == 2

HeaderLines ==
    {<<>>, <<"\r">>,
     <<"k", ":", "v", "\r">>, <<"K", ":", "V", "\r">>,
     <<"K", ":", " ", "v", " ", "\r">>, <<" ", "k", " ", ":", "\t", "V">>,
     <<"k", "v">>, <<"k", ":", "v", ":", "v">>, <<":", "v">>, <<"k", ":">>,
     <<"v", ":", "k", "\r">>, <<"k", "K", ":", "k">>}
HeaderTexts == UNION {[1..n -> HeaderLines] : n \in 0..MaxHeaderLines}
HeaderKeys == {<<"k">>, <<"K">>, <<"v">>, <<"V">>, <<"k", "K">>, <<"K", "k">>,
               <<"K", "K">>, <<"k", "k">>, <<>>, <<"k", " ">>}

HdInit ==
    \E lines \in HeaderTexts :
        hd = [lines |-> lines, kind |-> "none", header |-> <<>>,
              key |-> <<>>, value |-> <<>>, asked |-> FALSE]

HdOthers == <<rw, mx, srv, lst, cn, io, cli, ad, nt, ud, rs, tl, on>>

\* Server::parseRequest on a message with these header lines
HdParseRequest ==
    /\ hd.kind = "none"
    /\ hd' = [hd EXCEPT !.kind = "Request",
                        !.header = ParseHeaders(hd.lines, <<>>)]
    /\ UNCHANGED HdOthers

\* the response parsing of Get and Post on a message with these header lines
HdParseResponse ==
    /\ hd.kind = "none"
    /\ hd' = [hd EXCEPT !.kind = "Response",
                        !.header = ParseHeaders(hd.lines, <<>>)]
    /\ UNCHANGED HdOthers

\* req.Header(key), resp.Header(key)
HdHeader(key) ==
    /\ hd.kind # "none"
    /\ ~hd.asked
    /\ hd' = [hd EXCEPT !.key = key, !.value = Header(hd.header, key),
                        !.asked = TRUE]
    /\ UNCHANGED HdOthers

(***************************************************************************)
(* SpecNet: a process with a TCP listener made by ListenTCP, clients that  *)
(* call DialTCP against it, and a server that Accepts them and writes back *)
(* on each connection what it read from it.  A link is one established     *)
(* connection: cfd the dialing side's handle, sfd the accepted side's (0   *)
(* while the connection waits in the listen queue), c2s and s2c the bytes  *)
(* in flight each way, crst / srst whether the side was sent a reset.  A   *)
(* client's bytes are numbered 1, 2, ... in the order it wrote them.       *)
(***************************************************************************)
MaxClients == 2      \* clients that dial the listener
MaxEchoBytes == 2    \* bytes a client writes in all

NtWriteSizes == {1, 2}
NtReadSizes == {1, 2}

NewLink(cfd) == [cfd |-> cfd, sfd |-> 0, c2s |-> <<>>, s2c |-> <<>>,
                 crst |-> FALSE, srst |-> FALSE]

\* recv copying the first n bytes in flight into the buffer and taking
\* them from the stream: [data, rest]
RecvTake(stream, n) ==
    [data |-> SubSeq(stream, 1, n), rest |-> SubSeq(stream, n + 1, Len(stream))]

NoResult == [op |-> "none", obj |-> 0, value |-> 0, err |-> "not called"]
\* the result of a call: obj is the object returned (0 for nullptr), value
\* the count returned
CallResult(op, obj, value, err) ==
    [op |-> op, obj |-> obj, value |-> value, err |-> err]

\* the process after ListenTCP succeeded; clients and bytes are how many
\* clients will dial and how many bytes each will write
NtStart(clients, bytes) ==
    LET made == ListenTCP(EmptyNet)
    IN  [net |-> made.net, L |-> made.L, links |-> <<>>, cl |-> <<>>,
         sv |-> <<>>, refused |-> FALSE, clients |-> clients, bytes |-> bytes]

\* one client and the echo server
EchoInit == nt = NtStart(1, MaxEchoBytes)

\* several clients, each writing at most one byte
NtInit == nt = NtStart(MaxClients, 1)

NtOthers == <<rw, mx, srv, lst, cn, io, cli, ad, ud, hd, rs, tl, on>>

NtListening == nt.net.socks[nt.L.socket_fd].open

\* what the client side of link l sees of its peer
NtPeerOfClient(l) ==
    [state |-> IF l.crst THEN "reset"
               ELSE IF l.sfd # 0 /\ (~nt.net.socks[l.sfd].open
                                       \/ nt.net.socks[l.sfd].shut_wr)
               THEN "closed" ELSE "open",
     inflight |-> Len(l.s2c), sent |-> 0]

\* what the accepted side of link l sees of its peer
NtPeerOfServer(l) ==
    [state |-> IF l.srst THEN "reset"
               ELSE IF ~nt.net.socks[l.cfd].open \/ nt.net.socks[l.cfd].shut_wr
               THEN "closed" ELSE "open",
     inflight |-> Len(l.c2s), sent |-> 0]

\* a client thread calls DialTCP("tcp", "localhost:port"): connect succeeds
\* while the listener listens
NtDial ==
    /\ Len(nt.cl) < nt.clients
    /\ LET d == DialTCP(nt.net, <<"h", ":", "8">>,
                        [resolves |-> TRUE, connects |-> NtListening])
       IN  nt' = [nt EXCEPT
                 !.net = d.net,
                 !.links = IF d.conn # 0
                           THEN Append(@, NewLink(d.net.objs[d.conn].socket_fd))
                           ELSE @,
                 !.cl = Append(@, [conn |-> d.conn,
                                   link |-> IF d.conn # 0
                                            THEN Len(nt.links) + 1 ELSE 0,
                                   sent |-> 0, got |-> <<>>, asked |-> 0,
                                   wrote |-> NoResult])]
    /\ UNCHANGED NtOthers

\* the links waiting in the listen queue
NtPending == {k \in 1..Len(nt.links) : nt.links[k].sfd = 0 /\ ~nt.links[k].crst}

\* the server calls listener->Accept(): ErrClosed after Close(), otherwise
\* accept() returns the connection at the head of the queue, and blocks
\* while there is none
NtAccept ==
    /\ nt.L.closed \/ NtPending # {}
    /\ IF nt.L.closed
       THEN nt' = [nt EXCEPT !.refused = TRUE]
       ELSE LET k   == CHOOSE k \in NtPending : \A m \in NtPending : k <= m
                net == AcceptedTCPConn(nt.net)
                c   == Len(net.objs)
            IN  nt' = [nt EXCEPT
                      !.net = net,
                      !.links[k].sfd = net.objs[c].socket_fd,
                      !.sv = Append(@, [conn |-> c, link |-> k, buf |-> <<>>])]
    /\ UNCHANGED NtOthers

\* client i calls conn->Write(data, n) with its next n bytes
NtClientWrite(i, n) ==
    /\ nt.cl[i].conn # 0
    /\ nt.cl[i].sent + n <= nt.bytes
    /\ LET c  == nt.cl[i].conn
           o  == nt.net.objs[c]
           l  == nt.links[nt.cl[i].link]
           to == l.sfd = 0 \/ nt.net.socks[l.sfd].open
       IN  \E out \in IF Refuses(o) THEN {NoCall}
                      ELSE SendOutcomes("posix", nt.net.socks[o.socket_fd],
                                        NtPeerOfClient(l), n) :
             LET r == IF Refuses(o) THEN Refusal(o)
                      ELSE WriteResult("posix", o, out)
             IN  nt' = [nt EXCEPT
                       !.cl[i].asked = n,
                       !.cl[i].wrote = CallResult("Write", 0, r.value, r.err),
                       !.cl[i].sent = IF r.err = "nil" THEN @ + out.ret ELSE @,
                       !.links[nt.cl[i].link].c2s =
                           IF out.ret > 0 /\ to
                           THEN @ \o [b \in 1..out.ret |-> nt.cl[i].sent + b]
                           ELSE @,
                       !.links[nt.cl[i].link].crst =
                           @ \/ (out.ret > 0 /\ ~to)]
    /\ UNCHANGED NtOthers

\* client i calls conn->Read(buffer, size); the call blocks while recv has
\* nothing to return
NtClientRead(i, size) ==
    /\ nt.cl[i].conn # 0
    /\ LET c == nt.cl[i].conn
           o == nt.net.objs[c]
           l == nt.links[nt.cl[i].link]
       IN  \E out \in IF Refuses(o) THEN {NoCall}
                      ELSE RecvOutcomes("posix", nt.net.socks[o.socket_fd],
                                        NtPeerOfClient(l), size) :
             LET r    == IF Refuses(o) THEN Refusal(o)
                         ELSE ReadResult("posix", o, out)
                 took == RecvTake(l.s2c, IF out.ret > 0 THEN out.ret ELSE 0)
             IN  nt' = [nt EXCEPT
                       !.cl[i].got = IF r.err = "nil"
                                     THEN @ \o SubSeq(took.data, 1, r.value)
                                     ELSE @,
                       !.links[nt.cl[i].link].s2c = took.rest]
    /\ UNCHANGED NtOthers

\* the server calls conn->Read(buffer, size) on accepted connection j
NtServerRead(j, size) ==
    /\ nt.sv[j].buf = <<>>
    /\ LET c == nt.sv[j].conn
           o == nt.net.objs[c]
           l == nt.links[nt.sv[j].link]
       IN  \E out \in IF Refuses(o) THEN {NoCall}
                      ELSE RecvOutcomes("posix", nt.net.socks[o.socket_fd],
                                        NtPeerOfServer(l), size) :
             LET r    == IF Refuses(o) THEN Refusal(o)
                         ELSE ReadResult("posix", o, out)
                 took == RecvTake(l.c2s, IF out.ret > 0 THEN out.ret ELSE 0)
             IN  nt' = [nt EXCEPT
                       !.sv[j].buf = IF r.err = "nil"
                                     THEN SubSeq(took.data, 1, r.value) ELSE @,
                       !.links[nt.sv[j].link].c2s = took.rest]
    /\ UNCHANGED NtOthers

\* the server calls conn->Write(buffer, read_result.value) with what it read
NtServerWrite(j) ==
    /\ nt.sv[j].buf # <<>>
    /\ LET c  == nt.sv[j].conn
           o  == nt.net.objs[c]
           l  == nt.links[nt.sv[j].link]
           to == nt.net.socks[l.cfd].open
       IN  \E out \in IF Refuses(o) THEN {NoCall}
                      ELSE SendOutcomes("posix", nt.net.socks[o.socket_fd],
                                        NtPeerOfServer(l), Len(nt.sv[j].buf)) :
             LET r == IF Refuses(o) THEN Refusal(o)
                      ELSE WriteResult("posix", o, out)
             IN  nt' = [nt EXCEPT
                       !.sv[j].buf = <<>>,
                       !.links[nt.sv[j].link].s2c =
                           IF out.ret > 0 /\ to
                           THEN @ \o SubSeq(nt.sv[j].buf, 1, out.ret) ELSE @,
                       !.links[nt.sv[j].link].srst =
                           @ \/ (out.ret > 0 /\ ~to)]
    /\ UNCHANGED NtOthers

\* client i calls conn->close(); a close that leaves bytes unread resets
\* the peer
NtClientClose(i) ==
    /\ nt.cl[i].conn # 0
    /\ ~nt.net.objs[nt.cl[i].conn].closed
    /\ nt' = [nt EXCEPT
             !.net = TCPConnClose(nt.net, nt.cl[i].conn),
             !.links[nt.cl[i].link].srst =
                 @ \/ nt.links[nt.cl[i].link].s2c # <<>>]
    /\ UNCHANGED NtOthers

\* the server calls conn->close() on accepted connection j
NtServerClose(j) ==
    /\ ~nt.net.objs[nt.sv[j].conn].closed
    /\ nt' = [nt EXCEPT
             !.net = TCPConnClose(nt.net, nt.sv[j].conn),
             !.links[nt.sv[j].link].crst =
                 @ \/ nt.links[nt.sv[j].link].c2s # <<>>]
    /\ UNCHANGED NtOthers

\* the server calls listener->Close(): the connections still in the listen
\* queue are reset
NtListenerClose ==
    /\ ~nt.L.closed
    /\ LET r == TCPListenerClose(nt.L, nt.net)
       IN  nt' = [nt EXCEPT
                 !.L = r.L, !.net = r.net,
                 !.links = [k \in DOMAIN nt.links |->
                              IF nt.links[k].sfd = 0
                              THEN [nt.links[k] EXCEPT !.crst = TRUE]
                              ELSE nt.links[k]]]
    /\ UNCHANGED NtOthers

(***************************************************************************)
(* UDP (udp.cpp).  A datagram in flight is [src, dst, data]: the socket    *)
(* addresses it travels between and its bytes.  The host has one address,  *)
(* HostIP; a socket bound to 0.0.0.0 receives on it and sends from it.     *)
(***************************************************************************)
HostIP == <<"1", ".", "2", ".", "3", ".", "4">>

NoDatagram == [src |-> NullAddr, dst |-> NullAddr, data |-> <<>>]
UDPResult(value, err, addr, data) ==
    [value |-> value, err |-> err, addr |-> addr, data |-> data]
NoUDPCall == UDPResult(0, "not called", NullAddr, <<>>)

\* DialUDP storing the address it was given as the connection's local address
DialUDPKeepsGivenAddr(net, network, local_addr, remote_addr, env) ==
    LET fd   == NewHandle(net)
        made == [net EXCEPT !.socks = Append(@, NewSock)]
    IN  IF network \notin {"udp", "udp4", "udp6"}
        THEN [net |-> net, conn |-> 0, err |-> "unsupported network type",
              local_addr |-> NullAddr, sockaddr |-> NullAddr]
        ELSE IF local_addr.class # "nullptr" /\ env.in_use
        THEN [net |-> SocketClose(made, fd), conn |-> 0,
              err |-> socketErrorToError("posix", "EADDRINUSE"),
              local_addr |-> NullAddr, sockaddr |-> NullAddr]
        ELSE [net |-> [made EXCEPT !.objs = Append(@, NewUDPConn(fd))],
              conn |-> Len(net.objs) + 1, err |-> "nil",
              local_addr |-> IF local_addr.class # "nullptr" THEN local_addr
                             ELSE UDPAddr(AnyAddr, 0),
              sockaddr |->
                  UDPAddr(IF local_addr.class # "nullptr"
                             /\ local_addr.ip # AnyAddr THEN local_addr.ip
                          ELSE IF remote_addr.class # "nullptr" THEN HostIP
                          ELSE AnyAddr,
                          IF local_addr.class # "nullptr" /\ local_addr.port # 0
                          THEN local_addr.port ELSE env.ephemeral)]

\* DialUDP(network, local_addr, remote_addr): socket, bind when local_addr is
\* given, connect when remote_addr is given, and the local address that
\* getsockname reports: the bound ip, or the host's once connected, and the
\* bound port, or the one the system assigned (env.ephemeral).  sockaddr is
\* the address the system holds for the socket, local_addr the one the
\* UDPConn is given
DialUDP(net, network, local_addr, remote_addr, env) ==
    LET fd    == NewHandle(net)
        made  == [net EXCEPT !.socks = Append(@, NewSock)]
        bound == local_addr.class # "nullptr"
        conn  == remote_addr.class # "nullptr"
        ip    == IF bound /\ local_addr.ip # AnyAddr THEN local_addr.ip
                 ELSE IF conn THEN HostIP ELSE AnyAddr
        port  == IF bound /\ local_addr.port # 0 THEN local_addr.port
                 ELSE IF bound \/ conn THEN env.ephemeral ELSE 0
    IN  IF network \notin {"udp", "udp4", "udp6"}
        THEN [net |-> net, conn |-> 0, err |-> "unsupported network type",
              local_addr |-> NullAddr, sockaddr |-> NullAddr]
        ELSE IF bound /\ env.in_use
        THEN [net |-> SocketClose(made, fd), conn |-> 0,
              err |-> socketErrorToError("posix", "EADDRINUSE"),
              local_addr |-> NullAddr, sockaddr |-> NullAddr]
        ELSE IF conn /\ ~env.connects
        THEN [net |-> SocketClose(made, fd), conn |-> 0,
              err |-> socketErrorToError("posix", "ENETUNREACH"),
              local_addr |-> NullAddr, sockaddr |-> NullAddr]
        ELSE [net |-> [made EXCEPT !.objs = Append(@, NewUDPConn(fd))],
              conn |-> Len(net.objs) + 1, err |-> "nil",
              local_addr |-> UDPAddr(ip, port), sockaddr |-> UDPAddr(ip, port)]

\* ListenUDP(network, local_addr)
ListenUDP(net, network, local_addr, env) ==
    IF local_addr.class = "nullptr"
    THEN [net |-> net, conn |-> 0, err |-> "local address is required",
          local_addr |-> NullAddr, sockaddr |-> NullAddr]
    ELSE DialUDP(net, network, local_addr, NullAddr, env)

\* ListenUDPSimple(address)
ListenUDPSimple(net, address, env) ==
    LET addr_result == ResolveUDPAddr("udp", address, env)
    IN  IF addr_result.err # "nil"
        THEN [net |-> net, conn |-> 0, err |-> addr_result.err,
              local_addr |-> NullAddr, sockaddr |-> NullAddr]
        ELSE ListenUDP(net, "udp", addr_result.value, env)

\* recvfrom(fd, buffer, size): the datagram d is taken whole from the socket
\* and its first size bytes are copied
RecvFromOutcome(sock, d, size) ==
    IF ~sock.open THEN Outcome(-1, "EBADF")
    ELSE Outcome(Min2(size, Len(d.data)), "none")

\* UDPConn::ReadFrom on connection object o with datagram d at the socket
UDPReadFrom(o, sock, d, size) ==
    LET out == RecvFromOutcome(sock, d, size)
    IN  IF o.closed THEN UDPResult(0, "ErrClosed", NullAddr, <<>>)
        ELSE IF out.ret < 0
        THEN UDPResult(0, udpSocketErrorToError("posix", out.code), NullAddr,
                       <<>>)
        ELSE UDPResult(out.ret, "nil", UDPAddr(d.src.ip, d.src.port),
                       SubSeq(d.data, 1, out.ret))

\* UDPConn::Read: recv on the connected socket
UDPRead(o, sock, d, size) ==
    LET out == RecvFromOutcome(sock, d, size)
    IN  IF o.closed THEN UDPResult(0, "ErrClosed", NullAddr, <<>>)
        ELSE LET r == UDPReadResult("posix", out)
             IN  UDPResult(r.value, r.err, NullAddr,
                           SubSeq(d.data, 1, r.value))

\* sendto / send(fd, data, n): the whole datagram or an error
SendToOutcome(sock, n) ==
    IF ~sock.open THEN Outcome(-1, "EBADF") ELSE Outcome(n, "none")

\* UDPConn::WriteTo and WriteToUDP
UDPWriteTo(o, sock, data, addr) ==
    LET out == SendToOutcome(sock, Len(data))
    IN  IF o.closed THEN Result(0, "ErrClosed")
        ELSE IF addr.class # "UDPAddr" THEN Result(0, "address must be UDPAddr")
        ELSE UDPWriteResult("posix", out)

\* UDPConn::Write
UDPWrite(o, sock, data) ==
    IF o.closed THEN Result(0, "ErrClosed")
    ELSE UDPWriteResult("posix", SendToOutcome(sock, Len(data)))

(***************************************************************************)
(* SpecUDP: a server made by ListenUDPSimple, a client made by DialUDP     *)
(* with a remote address and no local one, datagrams written, lost, read   *)
(* and answered.  ud.air is the datagrams in flight; ud.cw the datagrams   *)
(* the client wrote, ud.sw those the server wrote with WriteTo.            *)
(***************************************************************************)
MaxDatagrams == 2    \* datagrams each side writes

UdPayloads == {<<7>>, <<7, 8>>}
UdReadSizes == {1, 2}
UdServerTexts == {<<":", "8">>, <<"h", ":", "8">>, <<"h">>}
UdRemoteTexts == {<<"h", ":", "8">>, <<"h", ":", "8", "0">>}
UdPorts == {5, 6}
UdDns == [dns |-> [ok |-> TRUE, ip |-> HostIP]]

NoEnd == [conn |-> 0, local_addr |-> NullAddr, sockaddr |-> NullAddr,
          remote |-> NullAddr, err |-> "not called", res |-> NoUDPCall,
          size |-> 0]

UdInit ==
    ud = [net |-> EmptyNet, server |-> NoEnd, client |-> NoEnd, air |-> {},
          cw |-> {}, sw |-> {}, wrote |-> Result(0, "not called")]

UdOthers == <<rw, mx, srv, lst, cn, io, cli, ad, nt, hd, rs, tl, on>>

UdEnd(d, remote) ==
    [conn |-> d.conn, local_addr |-> d.local_addr, sockaddr |-> d.sockaddr,
     remote |-> remote, err |-> d.err, res |-> NoUDPCall, size |-> 0]

\* the server calls ListenUDPSimple(address)
UdListen(address, in_use) ==
    /\ ud.server.err = "not called"
    /\ LET d == ListenUDPSimple(ud.net, address,
                   [dns |-> UdDns.dns, in_use |-> in_use, ephemeral |-> 8,
                    connects |-> TRUE])
       IN  ud' = [ud EXCEPT !.net = d.net, !.server = UdEnd(d, NullAddr)]
    /\ UNCHANGED UdOthers

\* the client calls ResolveUDPAddr("udp", address) and DialUDP("udp",
\* nullptr, the address resolved)
UdDial(address, port) ==
    /\ ud.client.err = "not called"
    /\ LET remote == ResolveUDPAddr("udp", address, UdDns).value
           d      == DialUDP(ud.net, "udp", NullAddr, remote,
                             [in_use |-> FALSE, ephemeral |-> port,
                              connects |-> TRUE])
       IN  ud' = [ud EXCEPT !.net = d.net, !.client = UdEnd(d, remote)]
    /\ UNCHANGED UdOthers

\* the client calls conn->Write(data, n)
UdClientWrite(data) ==
    /\ ud.client.conn # 0
    /\ Cardinality(ud.cw) < MaxDatagrams
    /\ LET o == ud.net.objs[ud.client.conn]
           r == UDPWrite(o, ud.net.socks[o.socket_fd], data)
           d == [src |-> ud.client.sockaddr, dst |-> ud.client.remote,
                 data |-> data]
       IN  ud' = [ud EXCEPT
                 !.wrote = r,
                 !.air = IF r.err = "nil" THEN @ \cup {d} ELSE @,
                 !.cw = IF r.err = "nil" THEN @ \cup {d} ELSE @]
    /\ UNCHANGED UdOthers

\* a datagram is lost on the way, or arrives where no socket takes it
UdLose(d) ==
    /\ d \in ud.air
    /\ ud' = [ud EXCEPT !.air = @ \ {d}]
    /\ UNCHANGED UdOthers

\* datagram d is for the server's socket: its port, and its ip unless the
\* socket is bound to 0.0.0.0
UdForServer(d) ==
    /\ ud.server.conn # 0
    /\ ud.net.socks[ud.net.objs[ud.server.conn].socket_fd].open
    /\ d.dst.port = ud.server.sockaddr.port
    /\ ud.server.sockaddr.ip \in {AnyAddr, d.dst.ip}

\* datagram d is for the client's socket, which is connected: it comes from
\* the address the socket is connected to
UdForClient(d) ==
    /\ ud.client.conn # 0
    /\ ud.net.socks[ud.net.objs[ud.client.conn].socket_fd].open
    /\ d.dst = ud.client.sockaddr
    /\ d.src = ud.client.remote

\* the server calls conn->ReadFrom(buffer, size, sender_addr); the call
\* blocks while no datagram is at the socket
UdServerReadFrom(size) ==
    /\ ud.server.conn # 0
    /\ LET o == ud.net.objs[ud.server.conn]
       IN  \/ /\ o.closed
              /\ ud' = [ud EXCEPT
                       !.server.size = size,
                       !.server.res = UDPReadFrom(o, ud.net.socks[o.socket_fd],
                                                  NoDatagram, size)]
           \/ \E d \in ud.air :
                 /\ ~o.closed
                 /\ UdForServer(d)
                 /\ ud' = [ud EXCEPT
                          !.air = @ \ {d},
                          !.server.size = size,
                          !.server.res = UDPReadFrom(o, ud.net.socks[o.socket_fd],
                                                     d, size)]
    /\ UNCHANGED UdOthers

\* the server calls conn->WriteTo(buffer, n, sender_addr) with the bytes and
\* the sender address its last ReadFrom returned; the datagram leaves from
\* the host's address and the socket's port
UdServerWriteTo ==
    /\ ud.server.conn # 0
    /\ ud.server.res.err = "nil"
    /\ Cardinality(ud.sw) < MaxDatagrams
    /\ LET o == ud.net.objs[ud.server.conn]
           r == UDPWriteTo(o, ud.net.socks[o.socket_fd], ud.server.res.data,
                           ud.server.res.addr)
           d == [src |-> UDPAddr(IF ud.server.sockaddr.ip = AnyAddr
                                 THEN HostIP ELSE ud.server.sockaddr.ip,
                                 ud.server.sockaddr.port),
                 dst |-> ud.server.res.addr, data |-> ud.server.res.data]
       IN  ud' = [ud EXCEPT
                 !.wrote = r,
                 !.air = IF r.err = "nil" THEN @ \cup {d} ELSE @,
                 !.sw = IF r.err = "nil" THEN @ \cup {d} ELSE @]
    /\ UNCHANGED UdOthers

\* the client calls conn->Read(buffer, size)
UdClientRead(size) ==
    /\ ud.client.conn # 0
    /\ LET o == ud.net.objs[ud.client.conn]
       IN  \/ /\ o.closed
              /\ ud' = [ud EXCEPT
                       !.client.size = size,
                       !.client.res = UDPRead(o, ud.net.socks[o.socket_fd],
                                              NoDatagram, size)]
           \/ \E d \in ud.air :
                 /\ ~o.closed
                 /\ UdForClient(d)
                 /\ ud' = [ud EXCEPT
                          !.air = @ \ {d},
                          !.client.size = size,
                          !.client.res = UDPRead(o, ud.net.socks[o.socket_fd],
                                                 d, size)]
    /\ UNCHANGED UdOthers

\* client->close(), server->close()
UdClose(who) ==
    /\ ud[who].conn # 0
    /\ ~ud.net.objs[ud[who].conn].closed
    /\ ud' = [ud EXCEPT !.net = UDPConnClose(ud.net, ud[who].conn)]
    /\ UNCHANGED UdOthers

(***************************************************************************)
(* What the operations return.  ListenTCP, ListenTLS and Accept as whole   *)
(* calls, failures included; the others are the operators above.           *)
(***************************************************************************)
NoListener == [kind |-> "nullptr", socket_fd |-> 0, closed |-> FALSE,
               alive |-> FALSE, ctx |-> "null", ctx_frees |-> 0]

\* ListenTCP(network, address): [net, L, err]
ListenTCPCall(net, network, address, env) ==
    LET fd     == NewHandle(net)
        made   == [net EXCEPT !.socks = Append(@, NewSock)]
        failed(n, err) == [net |-> n, L |-> NoListener, err |-> err]
    IN  IF network \notin {"tcp", "tcp4", "tcp6"}
        THEN failed(net, "unsupported network type")
        ELSE IF ~parseAddress(address).ok THEN failed(net, "ErrInvalidAddr")
        ELSE IF ~env.socket_ok
        THEN failed(net, socketErrorToError("posix", "EMFILE"))
        ELSE IF ~env.bind_ok
        THEN failed(SocketClose(made, fd),
                    socketErrorToError("posix", "EADDRINUSE"))
        ELSE IF ~env.listen_ok
        THEN failed(SocketClose(made, fd),
                    socketErrorToError("posix", "EADDRINUSE"))
        ELSE [net |-> made, L |-> TCPListenerFromFD(fd), err |-> "nil"]

\* a ListenTLS that makes the TCP listener first and looks at the
\* certificate and the key afterwards
ListenTLSSocketFirst(net, network, address, config, env) ==
    LET t   == ListenTCPCall(CtxNew(net), network, address, env)
        tls == [TCPListenerFromFD(t.L.socket_fd)
                   EXCEPT !.kind = "tls", !.ctx = "own"]
        failed(n, err) == [net |-> n, L |-> NoListener, err |-> err]
        undone == CtxFree(IF t.err = "nil" THEN TCPListenerDtor(t.L, t.net).net
                          ELSE t.net)
    IN  IF ~env.ctx_ok THEN failed(net, "SSL_CTX_new failed")
        ELSE IF t.err # "nil" THEN failed(undone, t.err)
        ELSE IF config.cert_file = "" \/ config.key_file = ""
        THEN failed(undone, "certificate and key files are required")
        ELSE IF ~env.cert_loads
        THEN failed(undone, "Failed to load certificate")
        ELSE IF ~env.key_loads
        THEN failed(undone, "Failed to load private key")
        ELSE IF ~env.key_matches
        THEN failed(undone, "Private key does not match certificate")
        ELSE [net |-> TCPListenerDtor(t.L, t.net).net, L |-> tls,
              err |-> "nil"]

\* ListenTLS(network, address, config): the certificate and the key are
\* required, the context is made, they are loaded into it and matched, then
\* the TCP listener is made and wrapped; every failure after SSL_CTX_new
\* frees the context
ListenTLSCall(net, network, address, config, env) ==
    LET withCtx == CtxNew(net)
        t   == ListenTCPCall(withCtx, network, address, env)
        tls == [TCPListenerFromFD(t.L.socket_fd)
                   EXCEPT !.kind = "tls", !.ctx = "own"]
        failed(n, err) == [net |-> n, L |-> NoListener, err |-> err]
    IN  IF config.cert_file = "" \/ config.key_file = ""
        THEN failed(net, "certificate and key files are required")
        ELSE IF ~env.ctx_ok THEN failed(net, "SSL_CTX_new failed")
        ELSE IF ~env.cert_loads
        THEN failed(CtxFree(withCtx), "Failed to load certificate")
        ELSE IF ~env.key_loads
        THEN failed(CtxFree(withCtx), "Failed to load private key")
        ELSE IF ~env.key_matches
        THEN failed(CtxFree(withCtx), "Private key does not match certificate")
        ELSE IF t.err # "nil" THEN failed(CtxFree(t.net), t.err)
        ELSE [net |-> TCPListenerDtor(t.L, t.net).net, L |-> tls,
              err |-> "nil"]

\* TLSListener::~TLSListener, then the base class destructor
TLSListenerDtor(L, net) ==
    TCPListenerDtor(IF L.ctx # "null"
                    THEN [L EXCEPT !.ctx = "null", !.ctx_frees = @ + 1]
                    ELSE L, net)

\* an Accept that hands out a connection whatever accept() returned
AcceptResultKeepsConn(L, out) ==
    Result(1, IF L.closed THEN "ErrClosed"
              ELSE IF out.ret < 0 THEN socketErrorToError("posix", out.code)
              ELSE "nil")

\* TCPListener::Accept, accept() having returned out: the Result's value
\* (1 a connection, 0 nullptr) and error
TCPAcceptResult(L, out) ==
    IF L.closed THEN Result(0, "ErrClosed")
    ELSE IF out.ret < 0 THEN Result(0, socketErrorToError("posix", out.code))
    ELSE Result(1, "nil")

\* TLSListener::Accept
TLSAcceptResult(L, out, env) ==
    LET result == TCPAcceptResult(L, out)
    IN  IF result.err # "nil" THEN result
        ELSE IF ~env.ssl_new_ok THEN Result(0, "SSL_new failed")
        ELSE IF ~env.handshakes THEN Result(0, "SSL_accept failed")
        ELSE Result(1, "nil")

(***************************************************************************)
(* SpecResults: one call of one fallible operation, on arguments and in    *)
(* surroundings drawn from the sets below.  rs.obj is the object returned  *)
(* (0 for nullptr), rs.value the count returned.                           *)
(***************************************************************************)
RsCall(op, network, address, obj, value, err) ==
    [op |-> op, network |-> network, address |-> address, obj |-> obj,
     value |-> value, err |-> err]

RsInit == rs = RsCall("none", "", <<>>, 0, 0, "not called")

RsOthers == <<rw, mx, srv, lst, cn, io, cli, ad, nt, ud, hd, tl, on>>

RsNetworks == {"tcp", "udp", "tcp6", "unix"}
RsAddrs == {<<":", "8">>, <<"h", ":", "8">>, <<"h">>, <<"h", ":", "x">>}
RsObjects == {[NewTCPConn(1) EXCEPT !.kind = k, !.closed = c, !.ssl = s] :
                 k \in {"tcp", "udp", "tls"}, c \in BOOLEAN,
                 s \in {"null", "live"}}
RsSocks == {[NewSock EXCEPT !.open = a, !.shut_rd = b, !.shut_wr = c] :
               a \in BOOLEAN, b \in BOOLEAN, c \in BOOLEAN}
RsPeers == [state : {"open", "closed", "reset"}, inflight : 0..2, sent : {0}]
RsListenEnvs == [socket_ok : BOOLEAN, bind_ok : BOOLEAN, listen_ok : BOOLEAN,
                 ctx_ok : BOOLEAN, cert_loads : BOOLEAN, key_loads : BOOLEAN,
                 key_matches : BOOLEAN]
RsUDPAddrs == {NullAddr, UDPAddr(AnyAddr, 8), TCPAddr(HostIP, 8)}
RsUDPEnvs == [in_use : BOOLEAN, ephemeral : {5}, connects : BOOLEAN,
              dns : {[ok |-> TRUE, ip |-> HostIP]}]
\* the surroundings of a dial: no reply is read by the dial itself
RsDialEnvs == {env \in Envs : env.reply = <<>> /\ env.stall = 0}
RsDatagrams == {[src |-> UDPAddr(HostIP, 5), dst |-> UDPAddr(HostIP, 8),
                 data |-> data] : data \in {<<>>, <<7>>, <<7, 8>>}}

RsObj(addr) == IF addr.class = "nullptr" THEN 0 ELSE 1

RsResolveTCPAddr(network, address, env) ==
    /\ rs.op = "none"
    /\ LET r == ResolveTCPAddr(network, address, env)
       IN  rs' = RsCall("ResolveTCPAddr", network, address, RsObj(r.value), 0,
                        r.err)
    /\ UNCHANGED RsOthers

RsResolveUDPAddr(network, address, env) ==
    /\ rs.op = "none"
    /\ LET r == ResolveUDPAddr(network, address, env)
       IN  rs' = RsCall("ResolveUDPAddr", network, address, RsObj(r.value), 0,
                        r.err)
    /\ UNCHANGED RsOthers

RsDialTCP(address, env) ==
    /\ rs.op = "none"
    /\ LET d == DialTCP(EmptyNet, address, env)
       IN  rs' = RsCall("DialTCP", "tcp", address, d.conn, 0, d.err)
    /\ UNCHANGED RsOthers

RsDialTLS(address, config, env) ==
    /\ rs.op = "none"
    /\ LET d == DialTLS(EmptyNet, address, config, env)
       IN  rs' = RsCall("DialTLS", "tcp", address, d.conn, 0, d.err)
    /\ UNCHANGED RsOthers

RsDialUDP(network, local_addr, remote_addr, env) ==
    /\ rs.op = "none"
    /\ local_addr.class # "TCPAddr" /\ remote_addr.class # "TCPAddr"
    /\ LET d == DialUDP(EmptyNet, network, local_addr, remote_addr, env)
       IN  rs' = RsCall("DialUDP", network, <<>>, d.conn, 0, d.err)
    /\ UNCHANGED RsOthers

RsListenUDP(network, address, env) ==
    /\ rs.op = "none"
    /\ \E d \in {ListenUDP(EmptyNet, network, NullAddr, env),
                 ListenUDP(EmptyNet, network, UDPAddr(AnyAddr, 8), env),
                 ListenUDPSimple(EmptyNet, address, env)} :
          rs' = RsCall("ListenUDP", network, address, d.conn, 0, d.err)
    /\ UNCHANGED RsOthers

RsListenTCP(network, address, env) ==
    /\ rs.op = "none"
    /\ LET l == ListenTCPCall(EmptyNet, network, address, env)
       IN  rs' = RsCall("ListenTCP", network, address, l.L.socket_fd, 0, l.err)
    /\ UNCHANGED RsOthers

RsListenTLS(network, address, config, env) ==
    /\ rs.op = "none"
    /\ LET l == ListenTLSCall(EmptyNet, network, address, config, env)
       IN  rs' = RsCall("ListenTLS", network, address, l.L.socket_fd, 0, l.err)
    /\ UNCHANGED RsOthers

RsAccept(kind, closed, out, env) ==
    /\ rs.op = "none"
    /\ LET L == [TCPListenerFromFD(1) EXCEPT !.kind = kind, !.closed = closed]
           r == IF kind = "tls" THEN TLSAcceptResult(L, out, env)
                ELSE TCPAcceptResult(L, out)
       IN  rs' = RsCall("Accept", kind, <<>>, r.value, 0, r.err)
    /\ UNCHANGED RsOthers

RsRead(platform, o, sock, peer, size) ==
    /\ rs.op = "none"
    /\ \E out \in IF Refuses(o) THEN {NoCall}
                  ELSE ReadOutcomes(platform, o, sock, peer, size) :
          LET r == IF Refuses(o) THEN Refusal(o) ELSE ReadResult(platform, o, out)
          IN  rs' = RsCall("Read", o.kind, <<>>, 0, r.value, r.err)
    /\ UNCHANGED RsOthers

RsWrite(platform, o, sock, peer, n) ==
    /\ rs.op = "none"
    /\ \E out \in IF Refuses(o) THEN {NoCall}
                  ELSE WriteOutcomes(platform, o, sock, peer, n) :
          LET r == IF Refuses(o) THEN Refusal(o)
                   ELSE WriteResult(platform, o, out)
          IN  rs' = RsCall("Write", o.kind, <<>>, 0, r.value, r.err)
    /\ UNCHANGED RsOthers

RsReadFrom(o, sock, d, size) ==
    /\ rs.op = "none"
    /\ o.kind = "udp"
    /\ LET r == UDPReadFrom(o, sock, d, size)
       IN  rs' = RsCall("ReadFrom", "udp", <<>>, RsObj(r.addr), r.value, r.err)
    /\ UNCHANGED RsOthers

RsWriteTo(o, sock, data, addr) ==
    /\ rs.op = "none"
    /\ o.kind = "udp"
    /\ LET r == UDPWriteTo(o, sock, data, addr)
       IN  rs' = RsCall("WriteTo", "udp", <<>>, 0, r.value, r.err)
    /\ UNCHANGED RsOthers

(***************************************************************************)
(* SpecTLS: one call of DialTCP, DialUDP, DialTLS or ListenTLS in          *)
(* surroundings where each step of it succeeds or fails, then the owner of *)
(* what it returned at work: Accept() on the listener, close() on the      *)
(* connections and on the listener, and their destruction, in any order.   *)
(***************************************************************************)
MaxTLSOps == 3       \* close() / Close() calls made on the objects
MaxTLSAccepts == 2   \* Accept() calls on the listener

\* the surroundings of the call: what resolves, connects, loads, binds
TlFixed(s) == IF s = {} THEN {TRUE} ELSE s
TlEnvs(dial, listen, udp) ==
    [resolves : TlFixed(dial), connects : TlFixed(dial \cup udp),
     ca_loads : TlFixed(dial), cert_loads : TlFixed(dial \cup listen),
     key_loads : TlFixed(dial \cup listen), handshakes : TlFixed(dial),
     peer_anchor : {"system"}, host_match : {TRUE}, reply : {<<>>},
     stall : {0}, ctx_ok : TlFixed(dial \cup listen),
     ssl_new_ok : TlFixed(dial), socket_ok : TlFixed(listen),
     bind_ok : TlFixed(listen), listen_ok : TlFixed(listen),
     key_matches : TlFixed(listen),
     in_use : IF udp = {} THEN {FALSE} ELSE BOOLEAN, ephemeral : {5}]
TlDialEnvs == TlEnvs(BOOLEAN, {}, {})
TlListenEnvs == TlEnvs({}, BOOLEAN, {})
TlUDPEnvs == TlEnvs({}, {}, BOOLEAN)
TlNoEnv == CHOOSE env \in TlEnvs({}, {}, {}) : TRUE

NoAccept == [err |-> "not called", conn |-> 0]

TlInit ==
    tl = [fn |-> "none", network |-> "", address |-> <<>>,
          config |-> NullConfig, env |-> TlNoEnv, net |-> EmptyNet,
          conn |-> 0, L |-> NoListener, err |-> "not called", closes |-> 0,
          accepts |-> 0, acc |-> NoAccept]

TlOthers == <<rw, mx, srv, lst, cn, io, cli, ad, nt, ud, hd, rs, on>>

TlDialTCP(address, env) ==
    /\ tl.fn = "none"
    /\ LET d == DialTCP(EmptyNet, address, env)
       IN  tl' = [tl EXCEPT !.fn = "DialTCP", !.network = "tcp",
                            !.address = address, !.env = env, !.net = d.net,
                            !.conn = d.conn, !.err = d.err]
    /\ UNCHANGED TlOthers

TlDialUDP(network, local_addr, remote_addr, env) ==
    /\ tl.fn = "none"
    /\ LET d == DialUDP(EmptyNet, network, local_addr, remote_addr, env)
       IN  tl' = [tl EXCEPT !.fn = "DialUDP", !.network = network,
                            !.env = env, !.net = d.net, !.conn = d.conn,
                            !.err = d.err]
    /\ UNCHANGED TlOthers

TlDialTLS(address, config, env) ==
    /\ tl.fn = "none"
    /\ LET d == DialTLS(EmptyNet, address, config, env)
       IN  tl' = [tl EXCEPT !.fn = "DialTLS", !.network = "tcp",
                            !.address = address, !.config = config,
                            !.env = env, !.net = d.net, !.conn = d.conn,
                            !.err = d.err]
    /\ UNCHANGED TlOthers

TlListenTLS(network, address, config, env) ==
    /\ tl.fn = "none"
    /\ LET l == ListenTLSCall(EmptyNet, network, address, config, env)
       IN  tl' = [tl EXCEPT !.fn = "ListenTLS", !.network = network,
                            !.address = address, !.config = config,
                            !.env = env, !.net = l.net, !.L = l.L,
                            !.err = l.err]
    /\ UNCHANGED TlOthers

\* listener->Accept(), a peer waiting: accept() returns out, SSL_new gives a
\* session or not (ssl_ok), the handshake succeeds or not (ok)
TlAccept(out, ssl_ok, ok) ==
    /\ tl.L.alive
    /\ tl.accepts < MaxTLSAccepts
    /\ LET result == TCPAcceptResult(tl.L, out)
           n      == AcceptedTCPConn(tl.net)
           raw    == Len(n.objs)
       IN  tl' = IF result.err # "nil"
                 THEN [tl EXCEPT !.accepts = @ + 1,
                                 !.acc = [err |-> result.err, conn |-> 0]]
                 ELSE IF ~ssl_ok
                 THEN [tl EXCEPT !.accepts = @ + 1,
                                 !.net = TLSAcceptNoSession(n, raw),
                                 !.acc = [err |-> "SSL_new failed",
                                          conn |-> 0]]
                 ELSE IF ~ok
                 THEN [tl EXCEPT !.accepts = @ + 1,
                                 !.net = TLSAcceptFinish(n, raw, FALSE),
                                 !.acc = [err |-> "SSL_accept failed",
                                          conn |-> 0]]
                 ELSE [tl EXCEPT !.accepts = @ + 1,
                                 !.net = TLSAcceptFinish(n, raw, TRUE),
                                 !.acc = [err |-> "nil", conn |-> raw + 1]]
    /\ UNCHANGED TlOthers

\* conn->close() on a connection the owner holds
TlClose(c) ==
    /\ c \in 1..Len(tl.net.objs)
    /\ tl.net.objs[c].alive
    /\ tl.closes < MaxTLSOps
    /\ tl' = [tl EXCEPT !.net = ConnClose(tl.net, c), !.closes = @ + 1]
    /\ UNCHANGED TlOthers

\* the last reference to a connection goes
TlDestroy(c) ==
    /\ c \in 1..Len(tl.net.objs)
    /\ tl.net.objs[c].alive
    /\ tl' = [tl EXCEPT !.net = ConnDestroy(tl.net, c)]
    /\ UNCHANGED TlOthers

\* listener->Close()
TlListenerClose ==
    /\ tl.L.alive
    /\ tl.closes < MaxTLSOps
    /\ LET r == TLSListenerClose(tl.L, tl.net)
       IN  tl' = [tl EXCEPT !.L = r.L, !.net = r.net, !.closes = @ + 1]
    /\ UNCHANGED TlOthers

\* the last reference to the listener goes
TlListenerDestroy ==
    /\ tl.L.alive
    /\ LET r == TLSListenerDtor(tl.L, tl.net)
       IN  tl' = [tl EXCEPT !.L = r.L, !.net = r.net]
    /\ UNCHANGED TlOthers

(***************************************************************************)
(* SpecOnce: threads calling DialTLS and ListenTLS at the same time.  Each *)
(* call starts with std::call_once(ssl_init_flag, InitializeSSL); the      *)
(* flag is "idle", "running" while one thread is inside InitializeSSL, or  *)
(* "done".  on.pc[t] is where thread t is in its call.                     *)
(***************************************************************************)
MaxThreads == 2     \* threads making calls
MaxOnceCalls == 2   \* calls each thread makes

OnThreads == 1..MaxThreads

\* a one-time guard that is a plain flag test: a thread that finds the
\* initialisation unfinished runs it
CheckThenInit(flag) ==
    IF flag = "done" THEN [flag |-> flag, pc |-> "after"]
    ELSE [flag |-> "running", pc |-> "SSL_library_init"]

\* std::call_once(ssl_init_flag, InitializeSSL) as thread t reaches it: the
\* first thread runs InitializeSSL, one that comes while it runs waits for
\* it to return, one that comes later passes
call_once(flag) ==
    CASE flag = "done"    -> [flag |-> flag, pc |-> "after"]
      [] flag = "idle"    -> [flag |-> "running", pc |-> "SSL_library_init"]
      [] flag = "running" -> [flag |-> flag, pc |-> "waiting"]

\* InitializeSSL: the three library calls in turn
InitializeSSL(pc) ==
    CASE pc = "SSL_library_init"       -> "SSL_load_error_strings"
      [] pc = "SSL_load_error_strings" -> "OpenSSL_add_all_algorithms"
      [] pc = "OpenSSL_add_all_algorithms" -> "returned"

OnInit ==
    on = [flag |-> "idle",
          pc |-> [t \in OnThreads |-> "idle"],
          fn |-> [t \in OnThreads |-> "none"],
          calls |-> [t \in OnThreads |-> 0],
          inits |-> 0, ctxs |-> 0, waited |-> FALSE, early_ctx |-> FALSE]

OnOthers == <<rw, mx, srv, lst, cn, io, cli, ad, nt, ud, hd, rs, tl>>

\* thread t calls DialTLS or ListenTLS and reaches call_once
OnCall(t, fn) ==
    /\ on.pc[t] = "idle"
    /\ on.calls[t] < MaxOnceCalls
    /\ LET r == call_once(on.flag)
       IN  on' = [on EXCEPT !.flag = r.flag, !.pc[t] = r.pc, !.fn[t] = fn,
                            !.calls[t] = @ + 1,
                            !.waited = @ \/ r.pc = "waiting"]
    /\ UNCHANGED OnOthers

\* the thread inside InitializeSSL makes its next library call; when the
\* function returns call_once marks the flag
OnInitialize(t) ==
    /\ on.pc[t] \in {"SSL_library_init", "SSL_load_error_strings",
                     "OpenSSL_add_all_algorithms"}
    /\ LET next == InitializeSSL(on.pc[t])
       IN  on' = IF next = "returned"
                 THEN [on EXCEPT !.pc[t] = "after", !.flag = "done",
                                 !.inits = @ + 1]
                 ELSE [on EXCEPT !.pc[t] = next]
    /\ UNCHANGED OnOthers

\* a thread waiting in call_once goes on once the initialisation returned
OnWake(t) ==
    /\ on.pc[t] = "waiting"
    /\ on.flag = "done"
    /\ on' = [on EXCEPT !.pc[t] = "after"]
    /\ UNCHANGED OnOthers

\* between call_once and SSL_CTX_new: DialTCP in DialTLS, the test of the
\* certificate and key names in ListenTLS; the call goes on (ok) or returns
OnBeforeContext(t, ok) ==
    /\ on.pc[t] = "after"
    /\ on' = [on EXCEPT !.pc[t] = IF ok THEN "SSL_CTX_new" ELSE "idle"]
    /\ UNCHANGED OnOthers

\* SSL_CTX_new(method), and the rest of the call
OnContext(t) ==
    /\ on.pc[t] = "SSL_CTX_new"
    /\ on' = [on EXCEPT !.pc[t] = "idle", !.ctxs = @ + 1,
                        !.early_ctx = @ \/ on.flag # "done"]
    /\ UNCHANGED OnOthers

(***************************************************************************)
(* Specifications.                                                         *)
(***************************************************************************)
\* A specification starts its own subsystem and leaves the variables of the
\* others at rest.
RWIdle == rw = None
MxIdle == mx = None
SrvIdle == srv = None
LstIdle == lst = None
CnIdle == cn = None
IoIdle == io = None
CliIdle == cli = None
AdIdle == ad = None
NtIdle == nt = None
UdIdle == ud = None
HdIdle == hd = None
RsIdle == rs = None
TlIdle == tl = None
OnIdle == on = None
NewerIdle == AdIdle /\ NtIdle /\ UdIdle /\ HdIdle /\ RsIdle /\ TlIdle /\ OnIdle

RWNext ==
    \/ \E k \in RWKeys, v \in RWValues : RWHeader(k, v)
    \/ \E c \in RWCodes : RWWriteHeader(c)
    \/ \E d \in RWData : RWWrite(d)

InitRW == RWInit /\ MxIdle /\ SrvIdle /\ LstIdle /\ CnIdle
              /\ IoIdle /\ CliIdle /\ NewerIdle

SpecRW == InitRW /\ [][RWNext]_vars

MxNext ==
    \/ \E p \in Strs, h \in HandlerIds : MxHandleFunc(p, h)
    \/ \E u \in Strs : MxServeHTTP(u)

InitMux == RWIdle /\ MxInit /\ SrvIdle /\ LstIdle /\ CnIdle
              /\ IoIdle /\ CliIdle /\ NewerIdle

SpecMux == InitMux /\ [][MxNext]_vars

CnNext ==
    \/ CnClose
    \/ \E how \in {"rd", "wr"} : CnShutdown(how)
    \/ CnDestroy

InitConn == RWIdle /\ MxIdle /\ SrvIdle /\ LstIdle /\ CnInit
              /\ IoIdle /\ CliIdle /\ NewerIdle

SpecConn == InitConn /\ [][CnNext]_vars

LstNext ==
    \/ LstPeerConnect
    \/ LstAcceptCall
    \/ LstAcceptReturn
    \/ LstAcceptFail
    \/ \E ok \in BOOLEAN : LstHandshake(ok)
    \/ LstCloseCall
    \/ LstCloseReturn

InitListen == RWIdle /\ MxIdle /\ SrvIdle /\ LstInit /\ CnIdle
              /\ IoIdle /\ CliIdle /\ NewerIdle

SpecListen == InitListen /\ [][LstNext]_vars

SrvNext ==
    \/ \E sc \in ShortScripts \cup FloodScripts : SrvPeerConnect(sc)
    \/ SrvAcceptCall
    \/ SrvAcceptReturn
    \/ SrvAcceptFail
    \/ \E ok \in BOOLEAN : SrvHandshake(ok)
    \/ \E i \in 1..Len(srv.w) : SrvRead(i)
    \/ \E i \in 1..Len(srv.w) : SrvParse(i)
    \/ \E i \in 1..Len(srv.w) : SrvServe(i)
    \/ \E i \in 1..Len(srv.w) : SrvWorkerEnd(i)

InitServer == RWIdle /\ MxIdle /\ SrvInit /\ LstIdle /\ CnIdle
              /\ IoIdle /\ CliIdle /\ NewerIdle

SpecServer == InitServer /\ [][SrvNext]_vars

InitWorker == RWIdle /\ MxIdle /\ WorkerInit /\ LstIdle /\ CnIdle
              /\ IoIdle /\ CliIdle /\ NewerIdle

SpecWorker == InitWorker /\ [][SrvNext]_vars

\* the threads of the program take their next step; what the peers and the
\* operating system do (a peer connects, accept() returns) is not forced
SpecListenFair ==
    /\ SpecListen
    /\ WF_vars(LstAcceptCall)
    /\ WF_vars(LstCloseCall)
    /\ WF_vars(LstCloseReturn)

IoNext ==
    \/ IoPeerSend
    \/ IoPeerClose
    \/ IoPeerReset
    \/ \E size \in ReadSizes : IoReadCall(size)
    \/ IoReadReturn
    \/ \E n \in WriteSizes : IoWrite(n)
    \/ \E how \in {"rd", "wr"} : IoShutdown(how)
    \/ IoClose
    \/ \E which \in {"read", "write", "both"}, t \in {"set", "passed"} :
          IoSetDeadline(which, t)
    \/ IoDeadlinePasses

InitIO == RWIdle /\ MxIdle /\ SrvIdle /\ LstIdle /\ CnIdle /\ IoInit
          /\ CliIdle /\ NewerIdle

SpecIO == InitIO /\ [][IoNext]_vars

\* recv returns once it has something to return, and the clock goes on
SpecIOFair == SpecIO /\ WF_vars(IoReadReturn) /\ WF_vars(IoDeadlinePasses)

CliNext ==
    \/ \E url \in Urls : CliGet(url)
    \/ \E url \in Urls : CliPost(url)
    \/ \E address \in Addresses, config \in Configs :
          CliDialTLS(address, config)

InitClient == RWIdle /\ MxIdle /\ SrvIdle /\ LstIdle /\ CnIdle /\ IoIdle
              /\ CliInit /\ NewerIdle

SpecClient == InitClient /\ [][CliNext]_vars

OlderIdle == RWIdle /\ MxIdle /\ SrvIdle /\ LstIdle /\ CnIdle /\ IoIdle
             /\ CliIdle

AdNext == AdResolveTCP \/ AdResolveUDP

InitAddr == OlderIdle /\ AdInit /\ NtIdle /\ UdIdle /\ HdIdle /\ RsIdle
    /\ TlIdle /\ OnIdle

SpecAddr == InitAddr /\ [][AdNext]_vars

HdNext ==
    \/ HdParseRequest
    \/ HdParseResponse
    \/ \E key \in HeaderKeys : HdHeader(key)

InitHeaders == OlderIdle /\ AdIdle /\ NtIdle /\ UdIdle /\ HdInit /\ RsIdle
    /\ TlIdle /\ OnIdle

SpecHeaders == InitHeaders /\ [][HdNext]_vars

NtNext ==
    \/ NtDial
    \/ NtAccept
    \/ \E i \in DOMAIN nt.cl, n \in NtWriteSizes : NtClientWrite(i, n)
    \/ \E i \in DOMAIN nt.cl, size \in NtReadSizes : NtClientRead(i, size)
    \/ \E j \in DOMAIN nt.sv, size \in NtReadSizes : NtServerRead(j, size)
    \/ \E j \in DOMAIN nt.sv : NtServerWrite(j)
    \/ \E i \in DOMAIN nt.cl : NtClientClose(i)
    \/ \E j \in DOMAIN nt.sv : NtServerClose(j)
    \/ NtListenerClose

InitNet == OlderIdle /\ AdIdle /\ NtInit /\ UdIdle /\ HdIdle /\ RsIdle
    /\ TlIdle /\ OnIdle

SpecNet == InitNet /\ [][NtNext]_vars

InitEcho == OlderIdle /\ AdIdle /\ EchoInit /\ UdIdle /\ HdIdle /\ RsIdle
    /\ TlIdle /\ OnIdle

SpecEcho == InitEcho /\ [][NtNext]_vars

UdNext ==
    \/ \E address \in UdServerTexts, in_use \in BOOLEAN :
          UdListen(address, in_use)
    \/ \E address \in UdRemoteTexts, port \in UdPorts : UdDial(address, port)
    \/ \E data \in UdPayloads : UdClientWrite(data)
    \/ \E d \in ud.air : UdLose(d)
    \/ \E size \in UdReadSizes : UdServerReadFrom(size)
    \/ UdServerWriteTo
    \/ \E size \in UdReadSizes : UdClientRead(size)
    \/ \E who \in {"client", "server"} : UdClose(who)

InitUDP == OlderIdle /\ AdIdle /\ NtIdle /\ UdInit /\ HdIdle /\ RsIdle
    /\ TlIdle /\ OnIdle

SpecUDP == InitUDP /\ [][UdNext]_vars

RsNext ==
    \/ \E network \in Networks, address \in AddrTexts, env \in AddrEnvs :
          RsResolveTCPAddr(network, address, env)
    \/ \E network \in Networks, address \in AddrTexts, env \in AddrEnvs :
          RsResolveUDPAddr(network, address, env)
    \/ \E address \in Addresses, env \in RsDialEnvs : RsDialTCP(address, env)
    \/ \E address \in Addresses, config \in Configs, env \in RsDialEnvs :
          RsDialTLS(address, config, env)
    \/ \E network \in RsNetworks, l \in RsUDPAddrs, r \in RsUDPAddrs,
          env \in RsUDPEnvs : RsDialUDP(network, l, r, env)
    \/ \E network \in RsNetworks, address \in RsAddrs, env \in RsUDPEnvs :
          RsListenUDP(network, address, env)
    \/ \E network \in RsNetworks, address \in RsAddrs, env \in RsListenEnvs :
          RsListenTCP(network, address, env)
    \/ \E network \in RsNetworks, address \in RsAddrs, config \in Configs,
          env \in RsListenEnvs : RsListenTLS(network, address, config, env)
    \/ \E kind \in {"tcp", "tls"}, closed \in BOOLEAN,
          out \in {Outcome(2, "none"), Outcome(-1, "EBADF"),
                   Outcome(-1, "ECONNRESET")},
          env \in [ssl_new_ok : BOOLEAN, handshakes : BOOLEAN] :
          RsAccept(kind, closed, out, env)
    \/ \E platform \in Platforms, o \in RsObjects, sock \in RsSocks,
          peer \in RsPeers, size \in ReadSizes :
          RsRead(platform, o, sock, peer, size)
    \/ \E platform \in Platforms, o \in RsObjects, sock \in RsSocks,
          peer \in RsPeers, n \in ReadSizes :
          RsWrite(platform, o, sock, peer, n)
    \/ \E o \in RsObjects, sock \in RsSocks, d \in RsDatagrams,
          size \in ReadSizes : RsReadFrom(o, sock, d, size)
    \/ \E o \in RsObjects, sock \in RsSocks, d \in RsDatagrams,
          addr \in RsUDPAddrs : RsWriteTo(o, sock, d.data, addr)

InitResults == OlderIdle /\ AdIdle /\ NtIdle /\ UdIdle /\ HdIdle /\ RsInit
    /\ TlIdle /\ OnIdle

SpecResults == InitResults /\ [][RsNext]_vars

TlNext ==
    \/ \E address \in Addresses, env \in TlDialEnvs : TlDialTCP(address, env)
    \/ \E network \in {"udp", "tcp"}, l \in {NullAddr, UDPAddr(AnyAddr, 8)},
          r \in {NullAddr, UDPAddr(HostIP, 8)}, env \in TlUDPEnvs :
          TlDialUDP(network, l, r, env)
    \/ \E address \in Addresses, config \in Configs, env \in TlDialEnvs :
          TlDialTLS(address, config, env)
    \/ \E network \in {"tcp", "udp"}, address \in {<<":", "8">>, <<"h">>},
          config \in Configs, env \in TlListenEnvs :
          TlListenTLS(network, address, config, env)
    \/ \E out \in {Outcome(2, "none"), Outcome(-1, "ECONNRESET")},
          ssl_ok \in BOOLEAN, ok \in BOOLEAN : TlAccept(out, ssl_ok, ok)
    \/ \E c \in 1..(MaxTLSAccepts * 2 + 2) : TlClose(c)
    \/ \E c \in 1..(MaxTLSAccepts * 2 + 2) : TlDestroy(c)
    \/ TlListenerClose
    \/ TlListenerDestroy

InitTLS == OlderIdle /\ AdIdle /\ NtIdle /\ UdIdle /\ HdIdle /\ RsIdle
    /\ TlInit /\ OnIdle

SpecTLS == InitTLS /\ [][TlNext]_vars

OnNext ==
    \E t \in OnThreads :
        \/ \E fn \in {"DialTLS", "ListenTLS"} : OnCall(t, fn)
        \/ OnInitialize(t)
        \/ OnWake(t)
        \/ \E ok \in BOOLEAN : OnBeforeContext(t, ok)
        \/ OnContext(t)

InitOnce == OlderIdle /\ AdIdle /\ NtIdle /\ UdIdle /\ HdIdle /\ RsIdle
    /\ TlIdle /\ OnInit

SpecOnce == InitOnce /\ [][OnNext]_vars

(***************************************************************************)
(* Claims.                                                                 *)
(***************************************************************************)
IsHead(p) == p.kind = "head"
IsFlush(e) == e.op \in {"WriteHeader", "Write"}

\* the calls of the log that flush or try to flush the status line
FlushCalls == SelectSeq(rw.log, IsFlush)

\* the code the first WriteHeader carries: its argument, or 200 when the first
\* such call is the implicit one of a Write
FirstCode == IF Head(FlushCalls).op = "WriteHeader"
             THEN Head(FlushCalls).code ELSE 200

\* C1: whatever Header / WriteHeader / Write calls were made on one
\* ResponseWriter, its connection carries at most one status line; it is the
\* first payload written, it carries the code of the first WriteHeader
\* (explicit, or the implicit 200 of a first Write), and the latched status
\* code stays that code through every later WriteHeader.
C1_SingleStatusLine ==
    LET heads == SelectSeq(Wire(rw.net, 1), IsHead)
    IN  /\ Len(heads) <= 1
        /\ FlushCalls = <<>> =>
              /\ Wire(rw.net, 1) = <<>>
              /\ ~rw.w.headers_written
        /\ FlushCalls # <<>> =>
              /\ rw.w.headers_written
              /\ Len(heads) = 1
              /\ IsHead(Wire(rw.net, 1)[1])
              /\ Wire(rw.net, 1)[1].code = FirstCode
              /\ rw.w.status_code = FirstCode

\* WriteHeader(201) was followed by a WriteHeader with another code
C1_Witness ==
    \E i, j \in 1..Len(rw.log) :
        /\ i < j
        /\ rw.log[i].op = "WriteHeader" /\ rw.log[i].code = 201
        /\ rw.log[j].op = "WriteHeader" /\ rw.log[j].code = 404
        /\ \A k \in 1..(i - 1) : ~IsFlush(rw.log[k])

\* the patterns of the table that are a string-prefix of the url
PrefixPatterns(handlers, url) ==
    {p \in DOMAIN handlers : FindAtZero(url, p)}

LongestPrefix(handlers, url) ==
    CHOOSE p \in PrefixPatterns(handlers, url) :
        \A q \in PrefixPatterns(handlers, url) : Len(q) <= Len(p)

Wire404 == <<StatusBlock(404, EmptyHeaders), BodyBlock("404 page not found\n")>>

\* C2: a dispatch whose url equals a registered pattern invokes exactly that
\* pattern's handler; one whose url equals no pattern invokes exactly the
\* handler of the longest registered pattern that is a prefix of the url.
C2_LongestPrefixDispatch ==
    mx.last.done =>
        IF mx.last.url \in DOMAIN mx.handlers
        THEN mx.last.invoked = <<mx.handlers[mx.last.url]>>
        ELSE PrefixPatterns(mx.handlers, mx.last.url) # {} =>
                mx.last.invoked =
                    <<mx.handlers[LongestPrefix(mx.handlers, mx.last.url)]>>

\* C3: a dispatch writes the 404 response and invokes no handler exactly when
\* no registered pattern equals the url or is a prefix of it.
C3_NotFoundIffNoMatch ==
    mx.last.done =>
        ((mx.last.wire = Wire404 /\ mx.last.invoked = <<>>)
            <=> PrefixPatterns(mx.handlers, mx.last.url) = {})

CnObj == cn.net.objs[1]
CnSock == cn.net.socks[1]
CnCloseCalls == Len(SelectSeq(cn.log, LAMBDA e : e = "close"))

\* C9: for a TCPConn, a UDPConn and a TLSConn, whatever close() calls precede
\* the destruction, the socket handle is released at most once at any time and
\* exactly once from the first close() or the destruction on: a close() on a
\* closed connection changes nothing, and the destructor of a closed
\* connection releases nothing.
C9_HandleReleasedOnce ==
    /\ [](/\ CnSock.closes <= 1
          /\ (CnCloseCalls > 0 \/ ~CnObj.alive) <=> CnSock.closes = 1
          /\ CnObj.closed <=> CnSock.closes = 1
          /\ CnObj.closed <=> ~CnSock.open)
    /\ [][(CnObj.closed /\ cn'.log = Append(cn.log, "close"))
              => cn'.net = cn.net]_vars
    /\ [][(CnObj.closed /\ cn'.log = Append(cn.log, "destroy"))
              => cn'.net.socks = cn.net.socks]_vars

\* close() was called twice and the connection then destroyed
C9_Witness ==
    /\ ~CnObj.alive
    /\ CnCloseCalls >= 2
    /\ CnSock.closes = 1


\* what the last Accept that returned reported
LstLastResult == IF lst.acc.results = <<>> THEN None
                 ELSE lst.acc.results[Len(lst.acc.results)]

\* C8: an Accept called after a Close() returned never enters accept(): it
\* returns the closed error at once; and an Accept that is blocked in
\* accept() when the other thread calls Close() eventually returns, with an
\* error.
C8_CloseUnblocksAccept ==
    /\ [](lst.acc.pc = "in_accept" => ~lst.acc.after_close)
    /\ [][(lst.cl.results # <<>> /\ lst'.acc.calls = lst.acc.calls + 1)
              => /\ lst'.acc.pc = "idle"
                 /\ lst'.acc.results = Append(lst.acc.results, "ErrClosed")]_vars
    /\ ((lst.acc.pc = "in_accept" /\ lst.acc.closed_while_blocked)
           ~> (lst.acc.pc = "idle" /\ LstLastResult # "conn"))

\* the handle of the listening socket
LstSock == lst.net.socks[lst.L.socket_fd]

\* C10: once Close() was called twice on a listener, the listening socket
\* was released exactly once and the second call reported what the first
\* reported.
C10_SecondCloseSameResult ==
    Len(lst.cl.results) >= 2 =>
        /\ LstSock.closes = 1
        /\ lst.cl.results[2] = lst.cl.results[1]

Finished(wk) == wk.pc \in {"done", "ended"}

\* C4: under ListenAndServe and under ListenAndServeTLS, a worker whose
\* accumulated bytes cannot be parsed into a Request (empty input, no method
\* or no url) never invokes the mux and never writes to the connection, and
\* has closed the connection when it is finished.
C4_UnparsableClosedSilently ==
    \A i \in 1..Len(srv.w) :
        srv.w[i].parse_failed =>
            /\ srv.w[i].mux_calls = 0
            /\ srv.w[i].writes = 0
            /\ Finished(srv.w[i]) => srv.w[i].close_calls = 1

\* C5: a worker whose read loop stopped because the buffer exceeded the
\* 1 MiB cap before the header terminator was seen never invokes the mux and
\* never writes a response.
C5_OverLimitNotDispatched ==
    \A i \in 1..Len(srv.w) :
        srv.w[i].hit_limit =>
            /\ srv.w[i].mux_calls = 0
            /\ srv.w[i].writes = 0

\* C6: every worker invokes the mux at most once; when it is finished,
\* whatever the path (parse failure, absent handler, handler return), it has
\* called close() on its connection and the connection is closed; and once
\* its read loop is over it never reads from the connection again.
C6_OneRequestThenClose ==
    /\ [](\A i \in 1..Len(srv.w) :
              /\ srv.w[i].mux_calls <= 1
              /\ Finished(srv.w[i]) =>
                    /\ srv.w[i].close_calls = 1
                    /\ srv.net.objs[srv.w[i].conn].closed)
    /\ [][\A i \in 1..Len(srv.w) :
              srv.w[i].pc # "read" =>
                  /\ srv'.w[i].pc # "read"
                  /\ srv'.w[i].reads = srv.w[i].reads
                  /\ srv'.w[i].mux_calls <= 1]_vars

\* two workers have ended and closed their connections, one after a parse
\* failure and one after the handler the mux selected returned
C6_Witness ==
    \E i, j \in 1..Len(srv.w) :
        /\ srv.w[i].pc = "ended" /\ srv.w[i].parse_failed
        /\ srv.w[i].mux_calls = 0 /\ srv.w[i].close_calls = 1
        /\ srv.w[j].pc = "ended" /\ srv.w[j].mux_calls = 1
        /\ srv.w[j].invoked # <<>> /\ srv.w[j].close_calls = 1

\* C7: the accept loop never returns; a failed Accept leaves it at the top
\* of the loop, where Accept is called again; and every Accept that returned
\* a connection has its own worker.
C7_AcceptLoopSurvivesFailure ==
    /\ [](/\ srv.loop.pc \in {"top", "in_accept", "handshake"}
          /\ srv.loop.pc = "top" => ENABLED SrvAcceptCall
          /\ Len(srv.w) = srv.loop.accepted
          /\ \A i, j \in 1..Len(srv.w) :
                i # j => srv.w[i].conn # srv.w[j].conn)
    /\ [][srv'.loop.failed # srv.loop.failed => srv'.loop.pc = "top"]_vars

\* a worker was spawned for a connection accepted after a failed Accept, and
\* has served it
C7_Witness ==
    \E i \in 1..Len(srv.w) :
        /\ srv.w[i].failed_before >= 1
        /\ srv.w[i].pc = "ended"
        /\ srv.w[i].mux_calls = 1

(***************************************************************************)
(* Claims about Read and Write (SpecIO).                                   *)
(***************************************************************************)
IoLog == {io.prev, io.last}
IoReads == {e \in IoLog : e.op = "Read"}
IoWrites == {e \in IoLog : e.op = "Write"}
IoIsTCP == IoObj.kind = "tcp"

\* C11: TCPConn.Read never returns success with zero bytes: a receive that
\* returned 0 gives the closed error, every successful Read reports at least
\* one byte, and a Read on a connection closed locally gives the closed error
\* without a system call on the socket.
C11_ReadNeverZeroSuccess ==
    IoIsTCP =>
        \A e \in IoReads :
            /\ e.err = "nil" => e.value >= 1
            /\ (Called(e) /\ e.out.ret = 0) => e.err = "ErrClosed"
            /\ e.closed => (e.err = "ErrClosed" /\ ~Called(e))

\* a Read returned a byte of the peer, the peer closed, and the next Read
\* returned on recv's 0
C11_Witness ==
    /\ IoIsTCP
    /\ io.prev.op = "Read" /\ io.prev.value >= 1 /\ io.prev.err = "nil"
    /\ io.last.op = "Read" /\ Called(io.last) /\ io.last.out.ret = 0
    /\ io.last.peer = "closed" /\ io.last.err = "ErrClosed"

\* C12: after CloseWrite succeeded on a TCPConn every later Write fails with
\* the closed error, and a Read still returns the bytes the peer has in
\* flight.
C12_HalfCloseWrite ==
    IoIsTCP =>
        /\ \A e \in IoWrites : e.cw_ok => e.err = "ErrClosed"
        /\ \A e \in IoReads :
              (e.cw_ok /\ ~e.closed /\ ~e.shut_rd /\ e.avail > 0)
                  => (e.err = "nil" /\ e.value >= 1)

(***************************************************************************)
(* Claims about CloseRead and CloseWrite (SpecConn).                       *)
(***************************************************************************)
CnIsTCP == CnObj.kind = "tcp"
CnCalled(how) == cn'.log = Append(cn.log, how)

\* C13: on a TCPConn already closed, CloseRead and CloseWrite return the
\* closed error and change nothing on the socket handle; on one that is not
\* closed they shut down the requested direction only and leave it not
\* closed, and a later close() on a connection not yet closed releases the
\* handle.
C13_HalfCloseRejectedWhenClosed ==
    [][CnIsTCP =>
        /\ \A how \in {"rd", "wr"} :
              (CnCalled(how) /\ CnObj.closed)
                  => (cn'.err = "ErrClosed" /\ cn'.net = cn.net)
        /\ (CnCalled("rd") /\ ~CnObj.closed)
              => /\ cn'.err = "nil"
                 /\ cn'.net = [cn.net EXCEPT !.socks[1].shut_rd = TRUE]
        /\ (CnCalled("wr") /\ ~CnObj.closed)
              => /\ cn'.err = "nil"
                 /\ cn'.net = [cn.net EXCEPT !.socks[1].shut_wr = TRUE]
        /\ (CnCalled("close") /\ ~CnObj.closed)
              => /\ ~cn'.net.socks[1].open
                 /\ cn'.net.socks[1].closes = cn.net.socks[1].closes + 1
      ]_vars

\* CloseWrite on an open TCPConn, then close() released the handle, then
\* CloseRead was rejected
C13_Witness ==
    /\ CnIsTCP
    /\ cn.log = <<"wr", "close", "rd">>
    /\ cn.err = "ErrClosed"
    /\ CnSock.shut_wr /\ ~CnSock.shut_rd
    /\ CnSock.closes = 1

(***************************************************************************)
(* Claims about deadlines (SpecIOFair).                                    *)
(***************************************************************************)

\* the thread is inside recv and recv has nothing to return
IoBlocked ==
    /\ io.pc = "in_recv"
    /\ ReadOutcomes(io.platform, IoObj, IoSock, io.peer, io.size) = {}

\* C14: on a TCPConn or UDPConn with a read deadline stored, a Read that is
\* still blocked when the deadline has passed returns the timeout error.
C14_BlockedReadTimesOut ==
    (IoObj.kind \in {"tcp", "udp"} /\ IoBlocked /\ io.rdl = "passed")
        ~> (io.pc = "idle" /\ io.last.op = "Read"
            /\ io.last.err = "ErrTimeout")

(***************************************************************************)
(* Claims about the implicit WriteHeader of Write (SpecRW).                *)
(***************************************************************************)
IsHeaderCall(e) == e.op = "Header"
IsWriteCall(e) == e.op = "Write"

\* the index in rw.log of the first WriteHeader or Write
FirstFlush ==
    CHOOSE i \in 1..Len(rw.log) :
        IsFlush(rw.log[i]) /\ \A j \in 1..(i - 1) : ~IsFlush(rw.log[j])

\* the header map Header() calls had built before call k of rw.log
HeadersBefore(k) ==
    LET sets(key) == {i \in 1..(k - 1) :
                         IsHeaderCall(rw.log[i]) /\ rw.log[i].key = key}
        last(key) == CHOOSE i \in sets(key) : \A j \in sets(key) : j <= i
        keys      == {key \in RWKeys : sets(key) # {}}
    IN  [key \in keys |-> rw.log[last(key)].value]

\* the data of the Write calls, in order, as body payloads
RECURSIVE Bodies(_)
Bodies(log) ==
    IF log = <<>> THEN <<>>
    ELSE IF IsWriteCall(Head(log))
    THEN <<BodyBlock(Head(log).data)>> \o Bodies(Tail(log))
    ELSE Bodies(Tail(log))

\* C15: a Write made before any WriteHeader puts a status line with code
\* 200, the headers set so far and the blank line on the connection before
\* its data; in every sequence of calls the status line and header block is
\* the first payload, all body bytes come after it, and the headers sent are
\* those set before the first Write or WriteHeader, never a later one.
C15_ImplicitHeaderBeforeBody ==
    LET wire == Wire(rw.net, 1)
    IN  FlushCalls # <<>> =>
          /\ wire = <<StatusBlock(FirstCode, HeadersBefore(FirstFlush))>>
                      \o Bodies(rw.log)
          /\ IsWriteCall(rw.log[FirstFlush]) =>
                /\ wire[1] = StatusBlock(200, HeadersBefore(FirstFlush))
                /\ wire[2] = BodyBlock(rw.log[FirstFlush].data)

\* a header was set, Write("x") came before any WriteHeader, the header was
\* then set to another value and Write("y") followed
C15_Witness ==
    /\ Len(rw.log) = 4
    /\ rw.log[1] = [op |-> "Header", key |-> "content-type",
                    value |-> "text/plain"]
    /\ rw.log[2] = [op |-> "Write", data |-> "x"]
    /\ rw.log[3] = [op |-> "Header", key |-> "content-type",
                    value |-> "text/html"]
    /\ rw.log[4] = [op |-> "Write", data |-> "y"]
    /\ Len(Wire(rw.net, 1)) = 3

(***************************************************************************)
(* Claims about TLSConn.Read and TLSConn.Write (SpecIO).                   *)
(***************************************************************************)
IoIsTLS == IoObj.kind = "tls"
IoWouldBlock(e) == Called(e) /\ e.out.ret < 0 /\ e.out.code \in WouldBlock
IoEndOfStream(e) == Called(e) /\ e.out.ret = 0

\* C16: TLSConn.Read returns success with zero bytes on end-of-stream and on
\* a would-block condition, TLSConn.Write returns an error on a would-block
\* condition, and neither returns a positive count together with an error.
C16_TLSReadWriteAsymmetry ==
    IoIsTLS =>
        /\ \A e \in IoReads :
              (IoEndOfStream(e) \/ IoWouldBlock(e))
                  => (e.value = 0 /\ e.err = "nil")
        /\ \A e \in IoWrites : IoWouldBlock(e) => e.err # "nil"
        /\ \A e \in IoReads \cup IoWrites : e.value > 0 => e.err = "nil"

\* a Read that met a would-block and returned success with zero bytes, then
\* a Write that met one and returned an error
C16_Witness ==
    /\ IoIsTLS
    /\ io.prev.op = "Read" /\ IoWouldBlock(io.prev)
    /\ io.prev.value = 0 /\ io.prev.err = "nil"
    /\ io.last.op = "Write" /\ IoWouldBlock(io.last)
    /\ io.last.err = "SSL_write would block"

(***************************************************************************)
(* Claims about DialTLS, Get and Post (SpecClient).                        *)
(***************************************************************************)
CliIsDialTLS == cli.call.fn = "DialTLS"
CliIsRequest == cli.call.fn \in {"Get", "Post"}
CliOK == cli.res.err = "nil"
\* the plain connection was made, so the dial got as far as the TLS setup
CliConnected == cli.env.resolves /\ cli.env.connects

\* C17: DialTLS resolves its trust policy in this order: with
\* insecure_skip_verify set verification is off; otherwise the peer is
\* verified, against the CA of ca_file alone when ca_file is set (the dial
\* failing when it does not load), against the system store when it is not;
\* with no config the peer is verified against the system store.
C17_TrustPolicyOrder ==
    CliIsDialTLS =>
        LET config == cli.call.config
            ctx    == cli.res.ctx
            skip   == config.present /\ config.insecure_skip_verify
        IN  /\ (skip /\ CliOK) => (ctx.verify = "none" /\ ctx.anchors = "none")
            /\ (~skip /\ CliOK) =>
                  /\ ctx.verify = "peer"
                  /\ ctx.anchors = IF config.present /\ config.ca_file # ""
                                   THEN "ca_file" ELSE "system"
                  /\ cli.env.peer_anchor = ctx.anchors
            /\ (~skip /\ config.present /\ config.ca_file # ""
                  /\ ~cli.env.ca_loads) => ~CliOK

\* a dial with ca_file set and verification on succeeded, the peer's
\* certificate chaining to that CA
C17_Witness ==
    /\ CliIsDialTLS /\ CliOK
    /\ cli.call.config.present /\ ~cli.call.config.insecure_skip_verify
    /\ cli.call.config.ca_file = "ca.pem"
    /\ cli.res.ctx.anchors = "ca_file"
    /\ cli.env.peer_anchor = "ca_file"

\* C18: DialTLS returns an error when exactly one of cert_file and key_file
\* is set; when both are set they are loaded as the client's identity, and a
\* failure to load either fails the dial.
C18_LoneCertOrKeyRejected ==
    (CliIsDialTLS /\ cli.call.config.present) =>
        LET config == cli.call.config
            cert   == config.cert_file # ""
            key    == config.key_file # ""
        IN  /\ (cert # key) => ~CliOK
            /\ (cert /\ key /\ CliOK) => cli.res.ctx.identity = "loaded"
            /\ (cert /\ key /\ ~(cli.env.cert_loads /\ cli.env.key_loads))
                  => ~CliOK

C20_BadSchemeNoDial ==
    (CliIsRequest /\ ~FindAtZero(cli.call.url, HTTP)
                  /\ ~FindAtZero(cli.call.url, HTTPS)) =>
        /\ ~CliOK
        /\ cli.res.calls = <<>>
        /\ cli.res.net = EmptyNet

\* Post of an ftp:// url in a world where every dial would have succeeded
C20_Witness ==
    /\ cli.call.fn = "Post"
    /\ cli.call.url = <<"f", "t", "p", ":", "/", "/", "a", "/", "x">>
    /\ cli.res.err = "invalid URL"
    /\ CliConnected /\ cli.env.handshakes

\* C21: once its request is sent, Get (and Post), over TCP and over TLS,
\* reads until the peer has closed, so the response is parsed from every
\* byte the peer sent before closing.
C21_ReadsUntilPeerCloses ==
    (CliIsRequest /\ cli.res.conn # 0) => cli.reply = cli.env.reply

AdCalled == ad.fn # "none"
AdAllowed ==
    IF ad.fn = "ResolveTCPAddr" THEN {"tcp", "tcp4", "tcp6"}
    ELSE {"udp", "udp4", "udp6"}
\* the text after the last colon of the address
AdPortText == SubSeq(ad.address, RFind(ad.address, ":") + 1, Len(ad.address))
AdHostText == SubSeq(ad.address, 1, RFind(ad.address, ":") - 1)
\* a decimal integer: an optional sign, then digits and nothing else
AdDigits(s) == s # <<>> /\ \A i \in 1..Len(s) : DigitVal(s[i]) >= 0
AdUnsigned(s) == IF s # <<>> /\ Head(s) \in {"+", "-"} THEN Tail(s) ELSE s
\* the value of a text of digits, capped just above the largest port
RECURSIVE AdValue(_, _)
AdValue(s, acc) ==
    IF s = <<>> THEN acc
    ELSE AdValue(Tail(s),
                 IF acc * 10 + DigitVal(Head(s)) > 65535 THEN 65536
                 ELSE acc * 10 + DigitVal(Head(s)))
AdPortOK ==
    /\ RFind(ad.address, ":") # 0
    /\ AdDigits(AdUnsigned(AdPortText))
    /\ AdValue(AdUnsigned(AdPortText), 0) <= 65535
    /\ (Head(AdPortText) = "-" => AdValue(AdUnsigned(AdPortText), 0) = 0)

\* C22: ResolveTCPAddr and ResolveUDPAddr answer a network outside their
\* allowed set with the unsupported-network error, and an address without a
\* colon, or whose text after the last colon is no decimal integer of
\* 0..65535, with ErrInvalidAddr; in both cases no address is returned.
C22_MalformedAddressRejected ==
    AdCalled =>
        /\ ad.network \notin AdAllowed =>
              ad.res = Result(NullAddr, "unsupported network type")
        /\ (ad.network \in AdAllowed /\ ~AdPortOK) =>
              ad.res = Result(NullAddr, "ErrInvalidAddr")

\* the host of the address can be resolved: no host at all, an IPv4 literal,
\* or a name the resolver knows
AdResolvable ==
    \/ AdHostText = <<>>
    \/ AdHostText \in Literals
    \/ ad.env.dns.ok
AdFamily == IF ad.fn = "ResolveTCPAddr" THEN "tcp" ELSE "udp"
\* the text is ip, ':' and the decimal digits of port
AdReadsAs(text, ip, port) ==
    LET colon == RFind(text, ":")
        tail  == SubSeq(text, colon + 1, Len(text))
    IN  /\ colon # 0
        /\ SubSeq(text, 1, colon - 1) = ip
        /\ AdDigits(tail)
        /\ (Len(tail) > 1 => Head(tail) # "0")
        /\ AdValue(tail, 0) = port

\* C23: for a resolvable "host:port" with 0 <= port <= 65535 and an allowed
\* network name, Resolve*Addr returns an address whose port is the requested
\* one, whose Network() is the family of the function called, and whose
\* String() is its ip, ':' and the decimal port; an empty host gives ip
\* 0.0.0.0.
C23_ResolvedAddressMatchesRequest ==
    (/\ AdCalled
     /\ ad.network \in AdAllowed
     /\ RFind(ad.address, ":") # 0
     /\ AdDigits(AdPortText)
     /\ AdValue(AdPortText, 0) <= 65535
     /\ AdResolvable)
    => /\ ad.res.err = "nil"
       /\ ad.res.value.port = AdValue(AdPortText, 0)
       /\ Network(ad.res.value) = AdFamily
       /\ AdReadsAs(AddrString(ad.res.value), ad.res.value.ip,
                    AdValue(AdPortText, 0))
       /\ (AdHostText = <<>> => ad.res.value.ip = AnyAddr)

C23_Witness ==
    /\ ad.fn = "ResolveUDPAddr"
    /\ ad.network = "udp4"
    /\ ad.address = <<":", "6", "5", "5", "3", "5">>
    /\ ad.res.err = "nil"
    /\ ad.res.value.port = 65535
    /\ AddrString(ad.res.value) = AnyAddr \o <<":", "6", "5", "5", "3", "5">>

\* the header lines the parser reads: those before the first empty line,
\* without their "\r"
RECURSIVE HdRead(_)
HdRead(lines) ==
    IF lines = <<>> \/ PopCR(Head(lines)) = <<>> THEN <<>>
    ELSE <<PopCR(Head(lines))>> \o HdRead(Tail(lines))
HdIsField(line) == \E i \in 1..Len(line) : line[i] = ":"
\* the text before, and after, the first colon of a header line
HdColon(line) == CHOOSE i \in 1..Len(line) :
                     line[i] = ":" /\ \A j \in 1..(i - 1) : line[j] # ":"
HdName(line) == SubSeq(line, 1, HdColon(line) - 1)
HdText(line) == SubSeq(line, HdColon(line) + 1, Len(line))
\* text without whitespace at either end
HdTrimmed(s) == s = <<>> \/ (~IsSpace(s[1]) /\ ~IsSpace(s[Len(s)]))
\* t is s without the whitespace at its ends
HdTrimOf(t, s) ==
    /\ HdTrimmed(t)
    /\ \E a, b \in 0..Len(s) :
          /\ a + b + Len(t) = Len(s)
          /\ \A i \in 1..a : IsSpace(s[i])
          /\ \A i \in 1..b : IsSpace(s[Len(s) + 1 - i])
          /\ \A i \in 1..Len(t) : t[i] = s[a + i]
\* the same text up to the case of its letters
HdCaseEq(s, t) ==
    /\ Len(s) = Len(t)
    /\ \A i \in 1..Len(s) :
          \/ s[i] = t[i]
          \/ {s[i], t[i]} \in {{"k", "K"}, {"v", "V"}}
HdLowerCase(s) == \A i \in 1..Len(s) : s[i] \notin {"K", "V"}
\* the key a header line is stored under
HdKeyOf(k, line) ==
    /\ HdLowerCase(k)
    /\ Len(k) <= Len(HdName(line))
    /\ \E a \in 0..(Len(HdName(line)) - Len(k)) :
          /\ HdTrimOf(SubSeq(HdName(line), a + 1, a + Len(k)), HdName(line))
          /\ HdCaseEq(k, SubSeq(HdName(line), a + 1, a + Len(k)))

\* C24: the request parser and the response parser store every header under
\* its lower-cased key with its trimmed value, a later line with the same
\* key in any letter case replaces an earlier one, and Header(k) returns the
\* same value for every letter-casing of k.
C24_HeadersCaseInsensitiveLastWins ==
    hd.kind # "none" =>
        LET read == HdRead(hd.lines)
            F    == {i \in 1..Len(read) : HdIsField(read[i])}
        IN  /\ \A k \in DOMAIN hd.header :
                  /\ HdLowerCase(k) /\ HdTrimmed(k) /\ HdTrimmed(hd.header[k])
                  /\ \E i \in F : HdKeyOf(k, read[i])
            /\ \A i \in F :
                  \E k \in DOMAIN hd.header :
                      /\ HdKeyOf(k, read[i])
                      /\ LET last == CHOOSE j \in F :
                                        /\ HdKeyOf(k, read[j])
                                        /\ \A m \in F :
                                              HdKeyOf(k, read[m]) => m <= j
                         IN  HdTrimOf(hd.header[k], HdText(read[last]))
            /\ \A k1, k2 \in HeaderKeys :
                  HdCaseEq(k1, k2) =>
                      Header(hd.header, k1) = Header(hd.header, k2)
            /\ hd.asked =>
                  \A k \in DOMAIN hd.header :
                      HdCaseEq(k, hd.key) => hd.value = hd.header[k]

C24_Witness ==
    /\ hd.kind = "Response"
    /\ hd.lines = <<<<"K", ":", " ", "v", " ", "\r">>,
                    <<" ", "k", " ", ":", "\t", "V">>>>
    /\ DOMAIN hd.header = {<<"k">>}
    /\ hd.header[<<"k">>] = <<"V">>
    /\ hd.asked /\ hd.key = <<"K">> /\ hd.value = <<"V">>

\* the bytes 1..n in the order they were written
NtWritten(n) == [b \in 1..n |-> b]
\* the connection of client i is at rest: accepted, neither side has closed
\* or was reset, and no byte is in flight or in the server's buffer
NtAtRest(i) ==
    LET l == nt.links[nt.cl[i].link]
    IN  /\ l.sfd # 0 /\ ~l.crst /\ ~l.srst
        /\ l.c2s = <<>> /\ l.s2c = <<>>
        /\ \A j \in DOMAIN nt.sv :
              nt.sv[j].link = nt.cl[i].link =>
                  nt.sv[j].buf = <<>> /\ ~nt.net.objs[nt.sv[j].conn].closed

\* C25: against a server that accepts the connection and writes back what it
\* reads, every successful Write of the client reports the number of bytes
\* it was handed, and the bytes the client's successful Reads returned are,
\* in order, the bytes it wrote: never a byte out of place or twice, and all
\* of them once the connection is at rest.
C25_EchoReturnsWhatWasWritten ==
    \A i \in DOMAIN nt.cl :
        nt.cl[i].conn # 0 =>
            /\ (nt.cl[i].wrote.op = "Write" /\ nt.cl[i].wrote.err = "nil")
                  => nt.cl[i].wrote.value = nt.cl[i].asked
            /\ Len(nt.cl[i].got) <= nt.cl[i].sent
            /\ nt.cl[i].got = NtWritten(Len(nt.cl[i].got))
            /\ NtAtRest(i) => nt.cl[i].got = NtWritten(nt.cl[i].sent)

C25_Witness ==
    /\ Len(nt.cl) = 1 /\ nt.cl[1].conn # 0
    /\ nt.cl[1].asked = 2
    /\ nt.cl[1].wrote = CallResult("Write", 0, 2, "nil")
    /\ nt.cl[1].got = <<1, 2>>
    /\ NtAtRest(1)

\* the handles of the accepted connections, of the dialed ones, of the listener
NtAcceptedFds == {nt.net.objs[nt.sv[j].conn].socket_fd : j \in DOMAIN nt.sv}
NtDialedFds == {nt.links[k].cfd : k \in DOMAIN nt.links}
\* connection object c holds a handle that is open and was never closed
NtUsable(c) ==
    /\ nt.net.socks[nt.net.objs[c].socket_fd].open
    /\ nt.net.socks[nt.net.objs[c].socket_fd].closes = 0

\* C26: a listener to which N clients connected returns at most N successful
\* Accepts and exactly N once none waits in its queue, each a TCPConn of its
\* own with a handle no other object has; closing any of these connections
\* leaves the other accepted connections and the listener open.
C26_AcceptsAreDistinctAndIndependent ==
    /\ Len(nt.sv) <= Len(nt.links)
    /\ (\A k \in DOMAIN nt.links : nt.links[k].sfd # 0 \/ nt.links[k].crst)
          => Len(nt.sv) = Cardinality({k \in DOMAIN nt.links :
                                          nt.links[k].sfd # 0})
    /\ \A j, m \in DOMAIN nt.sv :
          j # m => /\ nt.sv[j].conn # nt.sv[m].conn
                   /\ nt.net.objs[nt.sv[j].conn].socket_fd
                         # nt.net.objs[nt.sv[m].conn].socket_fd
    /\ NtAcceptedFds \cap (NtDialedFds \cup {nt.L.socket_fd}) = {}
    /\ \A j \in DOMAIN nt.sv :
          ~nt.net.objs[nt.sv[j].conn].closed => NtUsable(nt.sv[j].conn)
    /\ ~nt.L.closed => (NtListening /\ nt.net.socks[nt.L.socket_fd].closes = 0)

C26_Witness ==
    /\ Len(nt.links) = MaxClients
    /\ Len(nt.sv) = MaxClients
    /\ nt.net.objs[nt.sv[1].conn].closed
    /\ ~nt.net.objs[nt.sv[2].conn].closed
    /\ NtUsable(nt.sv[2].conn)
    /\ ~nt.L.closed /\ NtListening
    /\ nt.cl[2].got = <<1>>

\* the first size bytes of a datagram's data: all of it when the buffer has
\* room for it
UdCopied(data, size) == SubSeq(data, 1, Min2(size, Len(data)))

\* C27: the server's ReadFrom returns a datagram the client wrote together
\* with a sender address equal to the client's LocalAddr, whose port is the
\* one the system assigned; and what the client's Read returns is a datagram
\* the server wrote with WriteTo to that address, unchanged.
C27_UDPRoundTrip ==
    /\ ud.server.res.err = "nil" =>
          /\ ud.server.res.addr = ud.client.local_addr
          /\ ud.client.local_addr.port \in UdPorts
          /\ \E d \in ud.cw :
                /\ ud.server.res.data = UdCopied(d.data, ud.server.size)
                /\ ud.server.res.value = Len(ud.server.res.data)
    /\ ud.client.res.err = "nil" =>
          \E d \in ud.sw :
              /\ d.dst = ud.client.local_addr
              /\ \E w \in ud.cw : w.data = d.data \/ UdCopied(w.data, 1) = d.data
              /\ ud.client.res.data = UdCopied(d.data, ud.client.size)
              /\ ud.client.res.value = Len(ud.client.res.data)

C27_Witness ==
    /\ ud.server.res = UDPResult(2, "nil", ud.client.local_addr, <<7, 8>>)
    /\ ud.server.local_addr = UDPAddr(AnyAddr, 8)
    /\ ud.client.local_addr = UDPAddr(HostIP, 6)
    /\ ud.client.size = 2
    /\ ud.client.res = UDPResult(2, "nil", NullAddr, <<7, 8>>)

\* the connections TLSListener::Accept returned that nobody closed since
LstTLSConns ==
    {c \in DOMAIN lst.net.objs :
        /\ lst.net.objs[c].kind = "tls"
        /\ lst.net.objs[c].alive /\ ~lst.net.objs[c].closed}

\* C29: the handle of a TLSConn that TLSListener::Accept returned is open
\* and the TLSConn is its only owner: the destruction of the TCPConn that
\* Accept wrapped did not close it, and no handle is closed twice.
C29_AcceptedTLSHandleHasOneOwner ==
    lst.L.kind = "tls" =>
        /\ \A c \in LstTLSConns :
              /\ lst.net.socks[lst.net.objs[c].socket_fd].open
              /\ lst.net.socks[lst.net.objs[c].socket_fd].closes = 0
        /\ \A fd \in DOMAIN lst.net.socks \ {lst.L.socket_fd} :
              lst.net.socks[fd].closes <= 1

\* C30: the listening socket of a listener that ListenTLS returned is open,
\* also while Accept runs on it, until the TLSListener is closed: destroying
\* the TCPListener that ListenTLS wrapped did not close it, and it is closed
\* once at most.
C30_TLSListenerSocketOpen ==
    lst.L.kind = "tls" =>
        /\ (~lst.L.closed /\ lst.cl.pc = "idle")
              => /\ lst.net.socks[lst.L.socket_fd].open
                 /\ lst.net.socks[lst.L.socket_fd].closes = 0
        /\ lst.net.socks[lst.L.socket_fd].closes <= 1

\* the operations that return an object: an address, a connection, a listener
RsObjectOps == {"ResolveTCPAddr", "ResolveUDPAddr", "DialTCP", "DialUDP",
                "DialTLS", "ListenTCP", "ListenUDP", "ListenTLS", "Accept"}

\* C28: each of Resolve*Addr, DialTCP, DialUDP, DialTLS, ListenTCP, ListenUDP,
\* ListenTLS, Accept, Read, Write, ReadFrom and WriteTo returns a value and
\* no error, or an error with a null pointer and a zero count: never an
\* object or a positive count together with an error.
C28_ValueOrError ==
    rs.op # "none" =>
        /\ rs.err # "nil" => (rs.obj = 0 /\ rs.value = 0)
        /\ (rs.err = "nil" /\ rs.op \in RsObjectOps) => rs.obj # 0

C28_Witness ==
    /\ rs.op = "Write"
    /\ rs.network = "tcp"
    /\ rs.err = "ErrClosed"
    /\ rs.obj = 0 /\ rs.value = 0

(***************************************************************************)
(* SpecTLS: who owns the handle, the session and the context               *)
(***************************************************************************)
TlDialed(fn) == tl.fn = fn /\ tl.err = "nil"
TlFailed(fn) == tl.fn = fn /\ tl.err \notin {"nil", "not called"}
TlConn == tl.net.objs[tl.conn]
TlConnSock == tl.net.socks[TlConn.socket_fd]

\* C31: after a DialTLS that succeeded the intermediate TCPConn is gone and
\* its going did not close the socket: the handle is open until the TLSConn
\* is closed or destroyed, the TLSConn is the only object alive on it, and
\* SOCKET_CLOSE is made on it once, by the TLSConn's close() or destructor,
\* however often close() is called.
C31_DialTLSHandleOwnedByTLSConn ==
    TlDialed("DialTLS") =>
        /\ TlConn.kind = "tls"
        /\ \A c \in 1..Len(tl.net.objs) :
              (tl.net.objs[c].socket_fd = TlConn.socket_fd
               /\ tl.net.objs[c].alive) => c = tl.conn
        /\ \E c \in 1..Len(tl.net.objs) :
              /\ c # tl.conn
              /\ tl.net.objs[c].kind = "tcp"
              /\ tl.net.objs[c].socket_fd = TlConn.socket_fd
              /\ ~tl.net.objs[c].alive
        /\ TlConnSock.open = ~TlConn.closed
        /\ TlConnSock.closes = IF TlConn.closed THEN 1 ELSE 0
        /\ ~TlConn.alive => TlConn.closed

C31_Witness ==
    /\ TlDialed("DialTLS")
    /\ tl.closes = 2
    /\ ~TlConn.alive
    /\ TlConnSock.closes = 1

TlDials == {"DialTCP", "DialUDP", "DialTLS"}

\* C32: a dial that returns an error returns no object and leaves nothing
\* behind: every socket it created has had its one SOCKET_CLOSE, every TLS
\* context and session it made has been freed, and no object is alive.
C32_FailedDialLeavesNothing ==
    (\E fn \in TlDials : TlFailed(fn)) =>
        /\ tl.conn = 0
        /\ \A fd \in 1..Len(tl.net.socks) :
              ~tl.net.socks[fd].open /\ tl.net.socks[fd].closes = 1
        /\ tl.net.lib.ctx_made = tl.net.lib.ctx_freed
        /\ tl.net.lib.ssl_made = tl.net.lib.ssl_freed
        /\ \A c \in 1..Len(tl.net.objs) : ~tl.net.objs[c].alive

C32_Witness ==
    /\ TlFailed("DialTLS")
    /\ tl.err = "SSL_connect failed"
    /\ Len(tl.net.socks) = 1
    /\ tl.net.socks[1].closes = 1
    /\ tl.net.lib = [ctx_made |-> 1, ctx_freed |-> 1, ssl_made |-> 1,
                     ssl_freed |-> 1]

\* the Accept that just returned failed in the handshake
TlHandshakeFailed ==
    /\ tl'.accepts = tl.accepts + 1
    /\ tl'.acc.err = "SSL_accept failed"
TlRaw == Len(tl.net.objs) + 1

\* C33: an Accept whose handshake fails returns an error and no connection,
\* has closed the connection it accepted (one SOCKET_CLOSE on its handle, the
\* object gone), has freed the session it made, and leaves the listener as it
\* was: not closed, its context neither freed nor replaced.
C33_HandshakeFailureLeavesListener ==
    [][TlHandshakeFailed =>
          /\ tl'.acc.conn = 0
          /\ tl'.L = tl.L
          /\ ~tl'.L.closed /\ tl'.L.ctx = "own" /\ tl'.L.ctx_frees = 0
          /\ Len(tl'.net.objs) = TlRaw
          /\ ~tl'.net.objs[TlRaw].alive /\ tl'.net.objs[TlRaw].closed
          /\ LET fd == tl'.net.objs[TlRaw].socket_fd
             IN  /\ fd = Len(tl.net.socks) + 1
                 /\ ~tl'.net.socks[fd].open
                 /\ tl'.net.socks[fd].closes = 1
          /\ tl'.net.lib.ssl_made = tl.net.lib.ssl_made + 1
          /\ tl'.net.lib.ssl_freed = tl.net.lib.ssl_freed + 1
          /\ tl'.net.lib.ctx_freed = tl.net.lib.ctx_freed]_vars

\* an Accept that succeeded after one whose handshake failed
C33_Witness ==
    /\ tl.fn = "ListenTLS"
    /\ tl.accepts = 2
    /\ tl.net.lib.ssl_freed = 1
    /\ tl.acc.err = "nil" /\ tl.acc.conn # 0
    /\ tl.net.objs[tl.acc.conn].alive

\* the certificate and the key are named, load, and match
TlCredentialsPass ==
    /\ tl.config.cert_file # "" /\ tl.config.key_file # ""
    /\ tl.env.cert_loads /\ tl.env.key_loads /\ tl.env.key_matches

\* C34: a ListenTLS whose certificate or key is missing, does not load or
\* does not match returns an error and has made no socket; a socket exists
\* only when all of these checks passed; and a ListenTLS that returns an
\* error has freed the context if it made one and returns no listener.
C34_ListenTLSChecksBeforeSocket ==
    tl.fn = "ListenTLS" =>
        /\ ~TlCredentialsPass =>
              /\ tl.err # "nil"
              /\ tl.net.socks = <<>>
        /\ tl.net.socks # <<>> => (TlCredentialsPass /\ tl.env.ctx_ok)
        /\ tl.err # "nil" =>
              /\ tl.L = NoListener
              /\ tl.net.lib.ctx_made = tl.net.lib.ctx_freed
        /\ tl.net.lib.ctx_made <= 1

C34_Witness ==
    /\ tl.fn = "ListenTLS"
    /\ tl.err = "Private key does not match certificate"
    /\ tl.net.socks = <<>>
    /\ tl.net.lib.ctx_made = 1 /\ tl.net.lib.ctx_freed = 1

\* C35: TLSConn.close() ends and frees the session before it closes the
\* socket (no SOCKET_CLOSE is made on the handle while the session is
\* there, and a closed TLSConn has no session and freed it once), and every
\* Read and Write after close() returns an error without a call on the
\* session or the socket.
C35_TLSCloseOrderAndAfter ==
    IoIsTLS =>
        /\ ~IoSock.session_at_close
        /\ IoObj.closed => (IoObj.ssl = "null" /\ IoObj.ssl_frees = 1)
        /\ IoSock.closes = IF IoObj.closed THEN 1 ELSE 0
        /\ \A e \in IoReads \cup IoWrites :
              e.closed => (e.err = "TLS connection closed" /\ ~Called(e)
                           /\ e.value = 0)

\* close(), then a Read and a Write, both refused
C35_Witness ==
    /\ IoIsTLS
    /\ IoObj.closed /\ IoSock.closes = 1
    /\ io.prev.op = "Read" /\ io.prev.closed /\ ~Called(io.prev)
    /\ io.last.op = "Write" /\ io.last.closed
    /\ io.last.err = "TLS connection closed"

(***************************************************************************)
(* SpecOnce: the one-time initialisation                                   *)
(***************************************************************************)
OnPassed(t) == on.pc[t] \in {"after", "SSL_CTX_new"}

\* C36: however many threads call DialTLS and ListenTLS and however their
\* steps interleave, InitializeSSL runs once in the process: never a second
\* time, never in two threads at once, and it has returned before any call
\* goes past call_once and before any TLS context is made.
C36_InitializedExactlyOnce ==
    /\ on.inits <= 1
    /\ Cardinality({t \in OnThreads :
                       on.pc[t] \in {"SSL_library_init",
                                     "SSL_load_error_strings",
                                     "OpenSSL_add_all_algorithms"}}) <= 1
    /\ \A t \in OnThreads : OnPassed(t) => (on.inits = 1 /\ on.flag = "done")
    /\ on.ctxs > 0 => on.inits = 1
    /\ ~on.early_ctx

\* two threads made their contexts, one of them having waited in call_once
\* for the other's InitializeSSL
C36_Witness ==
    /\ on.waited
    /\ on.inits = 1
    /\ on.ctxs >= 2
    /\ \A t \in OnThreads : on.calls[t] >= 1
    /\ {on.fn[t] : t \in OnThreads} = {"DialTLS", "ListenTLS"}

(***************************************************************************)
(* SpecServer: the workers side by side                                    *)
(***************************************************************************)
\* what reached the peer of each worker's connection is what that worker
\* wrote, no more and no less
WorkerWritesReachOwnConn(s) ==
    \A i \in 1..Len(s.w) : Len(Wire(s.net, s.w[i].conn)) = s.w[i].writes

\* no worker sent bytes on a handle its connection does not hold
NoWriteOffConnection(s) == s.net.stray = <<>>

\* C37: workers of different connections share no mutable state, under every
\* interleaving of their steps: no step modifies the pattern table, each
\* worker's bytes go to its own connection and to no other socket, and a
\* connection carries only the bytes of its own worker.
C37_WorkersShareNoMutableState ==
    [][/\ srv'.handler = srv.handler
       /\ WorkerWritesReachOwnConn(srv')
       /\ NoWriteOffConnection(srv')]_vars

\* the same for the workers of ListenAndServe alone
ListenAndServeWorkersShareNothing ==
    [][~srv.tls => /\ srv'.handler = srv.handler
                   /\ WorkerWritesReachOwnConn(srv')
                   /\ NoWriteOffConnection(srv')]_vars

\* two workers of ListenAndServe, both past their dispatch, each with its
\* response on its own connection
TwoListenAndServeWorkersWrote ==
    /\ ~srv.tls
    /\ Len(srv.w) = 2
    /\ \A i \in 1..2 : srv.w[i].writes > 0 /\ srv.w[i].pc \in {"done", "ended"}

\* the text of the address the k-th peer connects from
ClientText(k) ==
    <<"1", "0", ".", "0", ".", "0", ".", Digit(k), ":",
      "4", "0", "0", "0", Digit(k)>>

\* worker w's request is, or is about to be, passed to the mux
Dispatched(w) == w.mux_calls >= 1 \/ (w.pc = "serve" /\ srv.handler.present)

TLSWorkersStamped ==
    /\ srv.tls
    /\ Len(srv.w) = 2
    /\ \A i \in 1..2 : srv.w[i].mux_calls = 1
                       /\ srv.w[i].req.remote_addr = ClientText(i)

(***************************************************************************)
(* SpecTLS: sessions and contexts                                          *)
(***************************************************************************)
TlTLSConns == {c \in 1..Len(tl.net.objs) : tl.net.objs[c].kind = "tls"}

\* the connection DialTLS returned / the connections Accept returned
TlFromDialTLS(c) == tl.fn = "DialTLS" /\ tl.err = "nil" /\ c = tl.conn
TlFromAccept(c) == tl.fn = "ListenTLS" /\ c \in TlTLSConns

\* C39: whatever close() calls and destruction a TLSConn goes through, its
\* session is shut down and freed once: not before the first of them, and
\* never a second time; its context is freed at most once, and only for a
\* connection DialTLS made.  A connection that Accept returned never frees a
\* context, and the listener's context is freed once, by the listener's
\* destruction and by nothing else.
C39_SessionAndContextFreedOnce ==
    /\ \A c \in TlTLSConns :
          LET o == tl.net.objs[c]
          IN  /\ o.ssl_frees = (IF o.closed \/ ~o.alive THEN 1 ELSE 0)
              /\ (o.ssl = "null") = (o.ssl_frees = 1)
              /\ o.ctx_frees <= 1
              /\ o.ctx_frees = 1 => (TlFromDialTLS(c) /\ ~o.alive)
              /\ TlFromAccept(c) => (o.ctx = "null" /\ o.ctx_frees = 0)
    /\ tl.L.kind = "tls" =>
          /\ tl.L.ctx_frees = (IF tl.L.alive THEN 0 ELSE 1)
          /\ tl.L.alive => tl.L.ctx = "own"
          /\ tl.net.lib.ctx_freed = 0

\* an accepted connection was closed and destroyed while the listener lived
\* on with its context, and the listener was destroyed after it
C39_Witness ==
    /\ tl.fn = "ListenTLS"
    /\ tl.closes >= 2
    /\ \E c \in TlTLSConns : /\ ~tl.net.objs[c].alive
                             /\ tl.net.objs[c].ssl_frees = 1
                             /\ tl.net.objs[c].ctx_frees = 0
    /\ ~tl.L.alive /\ tl.L.ctx_frees = 1

\* the connection of DialTLS closed twice and destroyed
DialTLSConnGone ==
    /\ TlDialed("DialTLS")
    /\ tl.closes >= 2
    /\ ~TlConn.alive /\ TlConn.ssl_frees = 1 /\ TlConn.ctx_frees = 1

(***************************************************************************)
(* SpecMux: the order of registration                                      *)
(***************************************************************************)
\* the orders in which the patterns of set S can have been registered
Orders(S) ==
    {s \in [1..Cardinality(S) -> S] :
        \A i, j \in 1..Cardinality(S) : i # j => s[i] # s[j]}

\* what ServeHTTP invokes for url when its loop meets the patterns in the
\* order keys
InvokedInOrder(handlers, url, keys) ==
    IF url \in DOMAIN handlers THEN <<handlers[url]>>
    ELSE LET best == PrefixScan(handlers, url, keys,
                                [longest_match |-> <<>>,
                                 matched_handler |-> None])
         IN  IF best.longest_match # <<>> THEN <<best.matched_handler>>
             ELSE <<>>

\* C40: for the mapping of patterns to handlers that the registrations left
\* (a registration of an existing pattern having replaced its handler) and
\* the url of a dispatch, ServeHTTP invokes what it would invoke had the
\* patterns been registered, and met by its loop, in any other order; and no
\* two distinct registered patterns that are prefixes of the url have the
\* same length.
C40_DispatchIndependentOfOrder ==
    /\ mx.order \in Orders(DOMAIN mx.handlers)
    /\ mx.last.done =>
          /\ \A keys \in Orders(DOMAIN mx.handlers) :
                InvokedInOrder(mx.handlers, mx.last.url, keys)
                    = mx.last.invoked
          /\ \A p, q \in PrefixPatterns(mx.handlers, mx.last.url) :
                p # q => Len(p) # Len(q)

\* two patterns registered longest first, each a proper prefix of the url,
\* with different handlers: the dispatch invoked the longer one's
C40_Witness ==
    /\ mx.last.done
    /\ Len(mx.order) = 2
    /\ mx.order # KeysInOrder(DOMAIN mx.handlers)
    /\ mx.last.url \notin DOMAIN mx.handlers
    /\ \A i \in 1..2 : FindAtZero(mx.last.url, mx.order[i])
                       /\ mx.order[i] # <<>>
    /\ mx.handlers[mx.order[1]] # mx.handlers[mx.order[2]]
    /\ mx.last.invoked = <<mx.handlers[mx.order[1]]>>
====
